---- MODULE Spec2Model ----
(***************************************************************************)
(* Verification model of the streaming extraction engine of                *)
(* server/agno_api.py: the Markdown section segmenter and validator        *)
(* (parse_news_section, parse_news_articles,                               *)
(* parse_news_articles_streaming), the status log merger                   *)
(* (build_routing_update, update_routing_log) and the event loop of        *)
(* generate_sse that drives them.                                          *)
(*                                                                         *)
(* Text is a sequence of tokens.  A token stands for one fixed piece of    *)
(* text; the operators below work on token sequences exactly as the        *)
(* Python code works on the characters the tokens stand for:               *)
(*   "nl"  "\n"                         "sp"  " "                          *)
(*   "h"   "###"                        "w"   "Vietn"            (5)       *)
(*   "t"   "Thai"            (4)        "M"   196 times "x"      (196)     *)
(*   "k"   "ID"  (a system keyword)     "u"   a 30-character http:// URL   *)
(*   "d"   "發布時間：2025-12-28" (15)  "e"   "發布時間:2025年1月2日" (14) *)
(* and, in the raw JSON text of the envelope:                              *)
(*   "J"   {"assistant":{"content":"   (25: the envelope up to the         *)
(*         opening quote of assistant.content)                             *)
(*   "bn"  the two characters \n (an escaped newline)                      *)
(*   "Q"   the closing quote "          "E"   ,"bullets":[]}} (15: the     *)
(*         rest of the envelope)                                           *)
(*   "Ed"  ,"bullets":[]},"documents_append":[{"id":"own"}]} (49: the rest *)
(*         of an envelope that carries a document of its own)              *)
(* and, where the envelope is looked at piece by piece:                    *)
(*   "ka"  {"assistant"  (12)           "kc"  :{"content"  (11)            *)
(*   "co"  :                            "bs"  one backslash                *)
(*   "cu"  the letter u                 "c4"  the hex digit 4              *)
(*   "cx"  the letter x                 "cn"  the letter n                 *)
(*   ("J" is "ka" "kc" "co" "Q" written without a break)                   *)
(* and, in texts the code derives:                                         *)
(*   "c#"  the character chr(0x4444)    "c%"  chr of fewer digits 4        *)
(*   "{"   the first character of "J"   ","   the first character of "E"   *)
(*   "F"   the 18 characters that open the fallback message                *)
(*   "X"   the 10 characters that open the error message                   *)
(*   "G"   the 19 characters of the apology sent when nothing arrived      *)
(*   "H"   the 34 characters of the greeting of the small-talk route       *)
(*   "N"   1000 times "[": arrays nested deeper than the interpreter's     *)
(*         recursion limit allows the JSON decoder to go                   *)
(*   "R"   the 60 characters of the message of the RecursionError          *)
(*   "..." the three dots that close it                                    *)
(*   "~"   the leading fragment of a token cut off by text[:200]           *)
(*   "wl", "tl", "kl"  "w", "t", "k" in lower case                         *)
(* and, as the ids of users:                                               *)
(*   "L"   "__legacy__", the key of the legacy bucket of the tag store     *)
(***************************************************************************)
EXTENDS Integers, Sequences, FiniteSets, TLC

VARIABLES
    content,    \* the text handed to the segmenter
    grown,      \* how many increments content was built from
    call,       \* which parser entry point ran last on content
    article,    \* what parse_news_section returned
    articles,   \* what parse_news_articles(_streaming) returned
    routing_log,    \* the ordered status log of a run
    routing_update, \* the status update merged last (None: none yet)
    should_send,    \* what update_routing_log returned for it
    calls,          \* how many times update_routing_log was called
    pc,             \* where generate_sse stands
    image_inputs,   \* the request carries images
    use_web_search, \* the route asked for web search
    routing_state,  \* the dict of step keys build_routing_update fills
    event,          \* the event pulled last from the generation stream
    pulled,         \* how many events were pulled
    accumulated,    \* the text received so far
    assistant_content_len,  \* length of assistant.content at the last check
    streamed_news_keys,     \* fingerprints of the articles already emitted
    reasoning_fragments,    \* the reasoning texts collected
    emitted,        \* the frames yielded by the step taken last
    ocr_updates,    \* the document updates run_ocr_for_documents returned
    news_records,   \* the records news_store holds
    sent_documents, \* the ids of the documents sent to the client in this run
    raised,         \* the generation stream raised in this run
    translate_calls,    \* the calls of batch_translate_titles in the step taken last
    runs,           \* the locals of the runs of generate_sse in progress side by side
    tag_store,      \* the "users" dict of tag_store._tag_store
    active_sessions,    \* the session tokens and their expiry times
    now,            \* the clock, in hours
    instances,      \* the NewsStore objects: the ids each found when constructed
    invoked,        \* the call made on a store or on the login interface in the
                    \* step taken last (None: no call)
    returned        \* what that call returned

parseVars == <<content, grown, call, article, articles>>

logVars == <<routing_log, routing_update, should_send, calls>>

storeVars == <<tag_store, active_sessions, now, instances, invoked, returned>>

runVars == <<pc, image_inputs, use_web_search, routing_state, event, pulled,
             accumulated, assistant_content_len, streamed_news_keys,
             reasoning_fragments, emitted, ocr_updates, news_records,
             sent_documents, raised, translate_calls, runs, storeVars>>

vars == <<content, grown, call, article, articles,
          routing_log, routing_update, should_send, calls,
          pc, image_inputs, use_web_search, routing_state, event, pulled,
          accumulated, assistant_content_len, streamed_news_keys,
          reasoning_fragments, emitted, ocr_updates, news_records,
          sent_documents, raised, translate_calls, runs, storeVars>>

(***************************************************************************)
(* Character-level facts about the tokens.                                 *)
(***************************************************************************)
TokLen(tok) ==
    CASE tok = "nl" -> 1
      [] tok = "sp" -> 1
      [] tok = "h" -> 3
      [] tok = "w" -> 5
      [] tok = "t" -> 4
      [] tok = "M" -> 196
      [] tok = "k" -> 2
      [] tok = "u" -> 30
      [] tok = "d" -> 15
      [] tok = "e" -> 14
      [] tok = "J" -> 25
      [] tok = "bn" -> 2
      [] tok = "Q" -> 1
      [] tok = "E" -> 15
      [] tok = "Ed" -> 49
      [] tok = "{" -> 1
      [] tok = "," -> 1
      [] tok = "F" -> 18
      [] tok = "X" -> 10
      [] tok = "G" -> 19
      [] tok = "H" -> 34
      [] tok = "N" -> 1000
      [] tok = "R" -> 60
      [] tok = "..." -> 3
      [] tok = "~" -> 1
      [] tok = "wl" -> 5
      [] tok = "tl" -> 4
      [] tok = "kl" -> 2
      [] tok = "ka" -> 12
      [] tok = "kc" -> 11
      [] tok = "co" -> 1
      [] tok = "bs" -> 1
      [] tok = "cu" -> 1
      [] tok = "c4" -> 1
      [] tok = "cx" -> 1
      [] tok = "cn" -> 1
      [] tok = "c#" -> 1
      [] tok = "c%" -> 1

IsSpace(tok) == tok \in {"nl", "sp"}

RECURSIVE StrLen(_)
StrLen(s) == IF s = <<>> THEN 0 ELSE TokLen(Head(s)) + StrLen(Tail(s))

\* str.strip(): leading whitespace removed
RECURSIVE LStrip(_)
LStrip(s) ==
    IF s = <<>> THEN <<>>
    ELSE IF IsSpace(Head(s)) THEN LStrip(Tail(s)) ELSE s

\* str.strip(): trailing whitespace removed
RECURSIVE RStrip(_)
RStrip(s) ==
    IF s = <<>> THEN <<>>
    ELSE IF IsSpace(s[Len(s)]) THEN RStrip(SubSeq(s, 1, Len(s) - 1)) ELSE s

Strip(s) == RStrip(LStrip(s))

\* str.split('\n'): always at least one line
RECURSIVE SplitLinesFrom(_, _, _)
SplitLinesFrom(s, i, cur) ==
    IF i > Len(s) THEN <<cur>>
    ELSE IF s[i] = "nl" THEN <<cur>> \o SplitLinesFrom(s, i + 1, <<>>)
    ELSE SplitLinesFrom(s, i + 1, Append(cur, s[i]))

SplitLines(s) == SplitLinesFrom(s, 1, <<>>)

\* '\n'.join(lines)
RECURSIVE JoinLines(_)
JoinLines(lines) ==
    IF lines = <<>> THEN <<>>
    ELSE IF Len(lines) = 1 THEN lines[1]
    ELSE lines[1] \o <<"nl">> \o JoinLines(Tail(lines))

\* any(keyword in title for keyword in system_keywords): of the tokens only
\* "k" ("ID") contains a blacklisted keyword
HasSystemKeyword(title) == \E i \in 1..Len(title) : title[i] = "k"

\* re.search(r'發布時間[：:]\s*(\d{4}[-年]\d{1,2}[-月]\d{1,2}日?)', body), group 1
\* of the first match; "" when there is none
DateOf(tok) == IF tok = "d" THEN "2025-12-28" ELSE "2025Y1M2D"

RECURSIVE SearchDate(_)
SearchDate(body) ==
    IF body = <<>> THEN ""
    ELSE IF Head(body) \in {"d", "e"} THEN DateOf(Head(body))
    ELSE SearchDate(Tail(body))

\* the run [^\s\)]+ the URL pattern consumes after "http://": up to the next
\* whitespace
RECURSIVE NonSpaceRun(_)
NonSpaceRun(s) ==
    IF s = <<>> THEN <<>>
    ELSE IF IsSpace(Head(s)) THEN <<>>
    ELSE <<Head(s)>> \o NonSpaceRun(Tail(s))

\* re.search(r'https?://[^\s\)]+', body), group 0 of the first match; <<>>
\* (the empty string) when there is none
RECURSIVE SearchUrl(_)
SearchUrl(body) ==
    IF body = <<>> THEN <<>>
    ELSE IF Head(body) = "u" THEN NonSpaceRun(body)
    ELSE SearchUrl(Tail(body))

None == [none |-> TRUE]

Article(title, body, publish_date, url) ==
    [title |-> title, content |-> body, publish_date |-> publish_date, url |-> url]

\* parse_news_section without the body-length test
parse_news_section_no_body_check(section) ==
    IF Strip(section) = <<>> THEN None
    ELSE
      LET lines == SplitLines(Strip(section)) IN
      IF Len(lines) < 2 THEN None
      ELSE
        LET title == Strip(lines[1])
            article_content == Strip(JoinLines(Tail(lines)))
            publish_date == SearchDate(article_content)
            url == SearchUrl(article_content)
        IN  IF HasSystemKeyword(title) THEN None
            ELSE IF url = <<>> /\ publish_date = "" THEN None
            ELSE IF StrLen(title) < 5 \/ StrLen(title) > 200 THEN None
            ELSE Article(title, article_content, publish_date, url)

parse_news_section(section) ==
    IF Strip(section) = <<>> THEN None
    ELSE
      LET lines == SplitLines(Strip(section)) IN
      IF Len(lines) < 2 THEN None
      ELSE
        LET title == Strip(lines[1])
            article_content == Strip(JoinLines(Tail(lines)))
            publish_date == SearchDate(article_content)
            url == SearchUrl(article_content)
        IN  IF HasSystemKeyword(title) THEN None
            ELSE IF url = <<>> /\ publish_date = "" THEN None
            ELSE IF StrLen(title) < 5 \/ StrLen(title) > 200 THEN None
            ELSE IF StrLen(article_content) < 30 THEN None
            ELSE Article(title, article_content, publish_date, url)

\* re.split(r'\n###\s+', content): leftmost non-overlapping matches of
\* newline, "###", then a greedy run of whitespace
RECURSIVE SkipSpace(_, _)
SkipSpace(s, i) == IF i <= Len(s) /\ IsSpace(s[i]) THEN SkipSpace(s, i + 1) ELSE i

DelimiterAt(s, i) ==
    /\ i + 2 <= Len(s)
    /\ s[i] = "nl"
    /\ s[i + 1] = "h"
    /\ IsSpace(s[i + 2])

RECURSIVE SplitFrom(_, _, _)
SplitFrom(s, i, cur) ==
    IF i > Len(s) THEN <<cur>>
    ELSE IF DelimiterAt(s, i) THEN <<cur>> \o SplitFrom(s, SkipSpace(s, i + 2), <<>>)
    ELSE SplitFrom(s, i + 1, Append(cur, s[i]))

SplitSections(s) == SplitFrom(s, 1, <<>>)

\* for section in sections: article = parse_news_section(section);
\* if article: articles.append(article)
RECURSIVE ParseSections(_)
ParseSections(sections) ==
    IF sections = <<>> THEN <<>>
    ELSE LET parsed == parse_news_section(Head(sections)) IN
         (IF parsed = None THEN <<>> ELSE <<parsed>>) \o ParseSections(Tail(sections))

parse_news_articles(text) == ParseSections(SplitSections(text))

\* parse_news_articles_streaming that keeps the last section
parse_news_articles_streaming_keep_last(text) ==
    LET sections == SplitSections(text) IN
    IF Len(sections) <= 2 THEN <<>>
    ELSE ParseSections(sections)

parse_news_articles_streaming(text) ==
    LET sections == SplitSections(text) IN
    IF Len(sections) <= 2 THEN <<>>
    ELSE ParseSections(SubSeq(sections, 1, Len(sections) - 1))

(***************************************************************************)
(* The status log.  A status entry is a dict with the keys id, label,      *)
(* status, eta and, on some updates, stage; Absent marks a key the dict    *)
(* does not have.  The display strings of the code are written in ASCII:   *)
(* "in-progress" for the eta of a running step, "failed" and "complete"    *)
(* for the two terminal etas.                                              *)
(***************************************************************************)
Absent == "<absent>"

Entry(id, label, status, eta, stage) ==
    [id |-> id, label |-> label, status |-> status, eta |-> eta, stage |-> stage]

\* {**step, **update}: every key the update has replaces the step's value
MergeDicts(step, update) ==
    [id     |-> IF update.id # Absent THEN update.id ELSE step.id,
     label  |-> IF update.label # Absent THEN update.label ELSE step.label,
     status |-> IF update.status # Absent THEN update.status ELSE step.status,
     eta    |-> IF update.eta # Absent THEN update.eta ELSE step.eta,
     stage  |-> IF update.stage # Absent THEN update.stage ELSE step.stage]

\* for idx, step in enumerate(routing_log): if step.get("id") == update.get("id")
RECURSIVE FindStepFrom(_, _, _)
FindStepFrom(log, id, idx) ==
    IF idx > Len(log) THEN 0
    ELSE IF log[idx].id = id THEN idx
    ELSE FindStepFrom(log, id, idx + 1)

FindStep(log, id) == FindStepFrom(log, id, 1)

\* update_routing_log that reports a change whenever it finds the id
update_routing_log_always_changed(log, update) ==
    LET idx == FindStep(log, update.id) IN
    IF idx # 0
    THEN [log |-> [log EXCEPT ![idx] = MergeDicts(log[idx], update)], changed |-> TRUE]
    ELSE [log |-> Append(log, update), changed |-> TRUE]

\* update_routing_log that moves a merged entry to the end of the log
update_routing_log_reappend(log, update) ==
    LET idx == FindStep(log, update.id) IN
    IF idx # 0
    THEN LET merged == MergeDicts(log[idx], update) IN
         IF merged = log[idx]
         THEN [log |-> log, changed |-> FALSE]
         ELSE [log |-> Append(SubSeq(log, 1, idx - 1) \o SubSeq(log, idx + 1, Len(log)),
                             merged),
               changed |-> TRUE]
    ELSE [log |-> Append(log, update), changed |-> TRUE]

\* update_routing_log that replaces the entry by the update
update_routing_log_replace(log, update) ==
    LET idx == FindStep(log, update.id) IN
    IF idx # 0
    THEN IF update = log[idx]
         THEN [log |-> log, changed |-> FALSE]
         ELSE [log |-> [log EXCEPT ![idx] = update], changed |-> TRUE]
    ELSE [log |-> Append(log, update), changed |-> TRUE]

\* the list after the call, and the returned flag
update_routing_log(log, update) ==
    LET idx == FindStep(log, update.id) IN
    IF idx # 0
    THEN LET merged == MergeDicts(log[idx], update) IN
         IF merged = log[idx]
         THEN [log |-> log, changed |-> FALSE]
         ELSE [log |-> [log EXCEPT ![idx] = merged], changed |-> TRUE]
    ELSE [log |-> Append(log, update), changed |-> TRUE]

(***************************************************************************)
(* Events of the generation stream.  An event is a plain string (py =      *)
(* "str") or an event object (py = "object") with the attributes the code  *)
(* reads: event (its name), content, reasoning_content and tool.  An       *)
(* attribute the object lacks reads as "" / <<>> (Python None).            *)
(***************************************************************************)
NoTool == [tool_call_id |-> "", tool_name |-> "", created_at |-> 0, tool_args |-> ""]

Tool(tool_call_id, tool_name, created_at) ==
    [tool_call_id |-> tool_call_id, tool_name |-> tool_name, created_at |-> created_at,
     tool_args |-> ""]

\* a tool call that has no tool_call_id; tool_args is what it was called with
ToolCall(tool_name, created_at, tool_args) ==
    [tool_call_id |-> "", tool_name |-> tool_name, created_at |-> created_at,
     tool_args |-> tool_args]

EventObject(name, text, reasoning, tool) ==
    [py |-> "object", event |-> name, content |-> text,
     reasoning_content |-> reasoning, tool |-> tool]

TextEvent(text) ==
    [py |-> "str", event |-> "", content |-> text,
     reasoning_content |-> <<>>, tool |-> NoTool]

\* format_tool_label: the label shown for a tool name
format_tool_label(tool_name) ==
    IF tool_name = "" THEN "tool-call"
    ELSE IF tool_name \in {"web_search", "web_search_preview"} THEN "web-lookup"
    ELSE IF tool_name \in {"search_knowledge_base"} THEN "document-retrieval"
    ELSE IF tool_name = "calc_tool" THEN "calc tool"
    ELSE tool_name

\* f"{tool_name or 'tool'}-{created_at}"
FallbackKey(tool_name, created_at) ==
    CASE tool_name = "" /\ created_at = 0 -> "tool-"
      [] tool_name = "" /\ created_at = 1 -> "tool-1"
      [] tool_name = "" /\ created_at = 2 -> "tool-2"
      [] tool_name = "web_search" /\ created_at = 1 -> "web_search-1"
      [] tool_name = "web_search" /\ created_at = 2 -> "web_search-2"
      [] tool_name = "calc_tool" /\ created_at = 1 -> "calc_tool-1"
      [] tool_name = "calc_tool" /\ created_at = 2 -> "calc_tool-2"

\* tool_key = tool_call_id, or the fallback when the tool has none
ToolKey(tool) ==
    IF tool.tool_call_id # "" THEN tool.tool_call_id
    ELSE FallbackKey(tool.tool_name, tool.created_at)

ReasoningProgressEvents ==
    {"ReasoningStarted", "TeamReasoningStarted", "ReasoningStep", "TeamReasoningStep",
     "ReasoningContentDelta", "TeamReasoningContentDelta"}

ContentEvents == {"TeamRunContent", "RunContent"}

CompletedEvents ==
    {"TeamRunContentCompleted", "RunContentCompleted", "TeamRunCompleted", "RunCompleted"}

RunStartedEvents == {"TeamRunStarted", "RunStarted"}

RunErrorEvents == {"TeamRunError", "RunError"}

ToolStartedEvents == {"TeamToolCallStarted", "ToolCallStarted"}

ToolCompletedEvents == {"TeamToolCallCompleted", "ToolCallCompleted"}

ToolErrorEvents == {"TeamToolCallError", "ToolCallError"}

\* routing_state.setdefault(key, key)
SetDefault(state, key) == IF key \in DOMAIN state THEN state ELSE state @@ (key :> key)

\* the key build_routing_update registers for the event ("" when it maps
\* the event to nothing)
StepKey(ev) ==
    IF ev.event \in ReasoningProgressEvents THEN "reasoning-thinking"
    ELSE IF ev.event \in ContentEvents THEN "content-generation"
    ELSE IF ev.event \in CompletedEvents THEN "content-processing"
    ELSE IF ev.event \in RunStartedEvents \cup RunErrorEvents THEN "run-main"
    ELSE IF ev.event \in ToolStartedEvents \cup ToolCompletedEvents \cup ToolErrorEvents
         THEN ToolKey(ev.tool)
    ELSE ""

\* routing_state after build_routing_update(event, routing_state)
build_routing_state(ev, state) ==
    IF StepKey(ev) = "" THEN state ELSE SetDefault(state, StepKey(ev))

\* build_routing_update that reports generation completed as a finished step
build_routing_update_completed_done(ev, state) ==
    IF ev.event \in ReasoningProgressEvents
    THEN Entry("reasoning-thinking", "ai-thinking", "running", "analyzing", "analyze")
    ELSE IF ev.event \in ContentEvents
    THEN Entry("content-generation", "content-generation", "running", "in-progress", "search")
    ELSE IF ev.event \in CompletedEvents
    THEN Entry("content-processing", "process-content", "done", "complete", "process")
    ELSE IF ev.event \in RunStartedEvents
    THEN Entry("run-main", "model-generation", "running", "in-progress", "analyze")
    ELSE IF ev.event \in RunErrorEvents
    THEN Entry("run-main", "model-generation", "done", "failed", Absent)
    ELSE IF ev.event \in ToolStartedEvents
    THEN Entry(build_routing_state(ev, state)[ToolKey(ev.tool)],
               format_tool_label(ev.tool.tool_name), "running", "in-progress", "search")
    ELSE IF ev.event \in ToolCompletedEvents
    THEN Entry(build_routing_state(ev, state)[ToolKey(ev.tool)],
               format_tool_label(ev.tool.tool_name), "done", "", Absent)
    ELSE IF ev.event \in ToolErrorEvents
    THEN Entry(build_routing_state(ev, state)[ToolKey(ev.tool)],
               format_tool_label(ev.tool.tool_name), "done", "failed", Absent)
    ELSE None

\* build_routing_update that reports a completed tool call as still running
build_routing_update_tool_stays_running(ev, state) ==
    IF ev.event \in ReasoningProgressEvents
    THEN Entry("reasoning-thinking", "ai-thinking", "running", "analyzing", "analyze")
    ELSE IF ev.event \in ContentEvents
    THEN Entry("content-generation", "content-generation", "running", "in-progress", "search")
    ELSE IF ev.event \in CompletedEvents
    THEN Entry("content-processing", "process-content", "running", "in-progress", "process")
    ELSE IF ev.event \in RunStartedEvents
    THEN Entry("run-main", "model-generation", "running", "in-progress", "analyze")
    ELSE IF ev.event \in RunErrorEvents
    THEN Entry("run-main", "model-generation", "done", "failed", Absent)
    ELSE IF ev.event \in ToolStartedEvents
    THEN Entry(build_routing_state(ev, state)[ToolKey(ev.tool)],
               format_tool_label(ev.tool.tool_name), "running", "in-progress", "search")
    ELSE IF ev.event \in ToolCompletedEvents
    THEN Entry(build_routing_state(ev, state)[ToolKey(ev.tool)],
               format_tool_label(ev.tool.tool_name), "running", "", Absent)
    ELSE IF ev.event \in ToolErrorEvents
    THEN Entry(build_routing_state(ev, state)[ToolKey(ev.tool)],
               format_tool_label(ev.tool.tool_name), "done", "failed", Absent)
    ELSE None

\* build_routing_update that logs content events on the run-main entry
build_routing_update_content_reopens_run(ev, state) ==
    IF ev.event \in ReasoningProgressEvents
    THEN Entry("reasoning-thinking", "ai-thinking", "running", "analyzing", "analyze")
    ELSE IF ev.event \in ContentEvents
    THEN Entry("run-main", "model-generation", "running", "in-progress", "search")
    ELSE IF ev.event \in CompletedEvents
    THEN Entry("content-processing", "process-content", "running", "in-progress", "process")
    ELSE IF ev.event \in RunStartedEvents
    THEN Entry("run-main", "model-generation", "running", "in-progress", "analyze")
    ELSE IF ev.event \in RunErrorEvents
    THEN Entry("run-main", "model-generation", "done", "failed", Absent)
    ELSE IF ev.event \in ToolStartedEvents
    THEN Entry(build_routing_state(ev, state)[ToolKey(ev.tool)],
               format_tool_label(ev.tool.tool_name), "running", "in-progress", "search")
    ELSE IF ev.event \in ToolCompletedEvents
    THEN Entry(build_routing_state(ev, state)[ToolKey(ev.tool)],
               format_tool_label(ev.tool.tool_name), "done", "", Absent)
    ELSE IF ev.event \in ToolErrorEvents
    THEN Entry(build_routing_state(ev, state)[ToolKey(ev.tool)],
               format_tool_label(ev.tool.tool_name), "done", "failed", Absent)
    ELSE None

\* build_routing_update that names the entry of a tool call by the tool
build_routing_update_keyed_by_name(ev, state) ==
    IF ev.event \in ReasoningProgressEvents
    THEN Entry("reasoning-thinking", "ai-thinking", "running", "analyzing", "analyze")
    ELSE IF ev.event \in ContentEvents
    THEN Entry("content-generation", "content-generation", "running", "in-progress", "search")
    ELSE IF ev.event \in CompletedEvents
    THEN Entry("content-processing", "process-content", "running", "in-progress", "process")
    ELSE IF ev.event \in RunStartedEvents
    THEN Entry("run-main", "model-generation", "running", "in-progress", "analyze")
    ELSE IF ev.event \in RunErrorEvents
    THEN Entry("run-main", "model-generation", "done", "failed", Absent)
    ELSE IF ev.event \in ToolStartedEvents
    THEN Entry(ev.tool.tool_name,
               format_tool_label(ev.tool.tool_name), "running", "in-progress", "search")
    ELSE IF ev.event \in ToolCompletedEvents
    THEN Entry(ev.tool.tool_name,
               format_tool_label(ev.tool.tool_name), "done", "", Absent)
    ELSE IF ev.event \in ToolErrorEvents
    THEN Entry(ev.tool.tool_name,
               format_tool_label(ev.tool.tool_name), "done", "failed", Absent)
    ELSE None

\* the dict build_routing_update returns (None: no update for this event)
build_routing_update(ev, state) ==
    IF ev.event \in ReasoningProgressEvents
    THEN Entry("reasoning-thinking", "ai-thinking", "running", "analyzing", "analyze")
    ELSE IF ev.event \in ContentEvents
    THEN Entry("content-generation", "content-generation", "running", "in-progress", "search")
    ELSE IF ev.event \in CompletedEvents
    THEN Entry("content-processing", "process-content", "running", "in-progress", "process")
    ELSE IF ev.event \in RunStartedEvents
    THEN Entry("run-main", "model-generation", "running", "in-progress", "analyze")
    ELSE IF ev.event \in RunErrorEvents
    THEN Entry("run-main", "model-generation", "done", "failed", Absent)
    ELSE IF ev.event \in ToolStartedEvents
    THEN Entry(build_routing_state(ev, state)[ToolKey(ev.tool)],
               format_tool_label(ev.tool.tool_name), "running", "in-progress", "search")
    ELSE IF ev.event \in ToolCompletedEvents
    THEN Entry(build_routing_state(ev, state)[ToolKey(ev.tool)],
               format_tool_label(ev.tool.tool_name), "done", "", Absent)
    ELSE IF ev.event \in ToolErrorEvents
    THEN Entry(build_routing_state(ev, state)[ToolKey(ev.tool)],
               format_tool_label(ev.tool.tool_name), "done", "failed", Absent)
    ELSE None

\* extract_stream_text: the text an event contributes (<<>>: None or "")
extract_stream_text(ev) ==
    IF ev.py = "str" THEN ev.content
    ELSE IF ev.event \in {"TeamRunContent", "TeamRunIntermediateContent",
                          "RunContent", "RunIntermediateContent"}
    THEN ev.content
    ELSE <<>>

TRACE_MAX_LEN == 2000

\* text[:n]
RECURSIVE TakeChars(_, _)
TakeChars(text, n) ==
    IF text = <<>> \/ n = 0 THEN <<>>
    ELSE IF TokLen(Head(text)) <= n
         THEN <<Head(text)>> \o TakeChars(Tail(text), n - TokLen(Head(text)))
         ELSE <<"~">>

\* truncate_text: the stripped text, cut to max_len characters and "..."
truncate_text(value, max_len) ==
    IF StrLen(Strip(value)) <= max_len THEN Strip(value)
    ELSE TakeChars(Strip(value), max_len) \o <<"...">>

ReasoningEvents ==
    ReasoningProgressEvents \cup {"ReasoningCompleted", "TeamReasoningCompleted"}

\* extract_reasoning_text: reasoning_content, else content, of a reasoning event
extract_reasoning_text(ev) ==
    IF ev.py = "object" /\ ev.event \in ReasoningEvents
    THEN LET text == IF ev.reasoning_content # <<>> THEN ev.reasoning_content
                     ELSE ev.content
         IN  IF text # <<>> THEN truncate_text(text, TRACE_MAX_LEN) ELSE <<>>
    ELSE <<>>

\* build_reasoning_summary: the last non-blank fragment
RECURSIVE build_reasoning_summary(_)
build_reasoning_summary(chunks) ==
    IF chunks = <<>> THEN <<>>
    ELSE IF Strip(chunks[Len(chunks)]) # <<>>
         THEN truncate_text(Strip(chunks[Len(chunks)]), TRACE_MAX_LEN)
         ELSE build_reasoning_summary(SubSeq(chunks, 1, Len(chunks) - 1))

\* getattr(event, "tool_name", None): the events keep the tool under .tool
\* and have no tool_name attribute of their own
EventToolName(ev) == ""

\* should_emit_trace_content: text that is not blank and does not open with
\* "{" or "[" once stripped.  Nothing in the module calls it.
should_emit_trace_content(text) ==
    /\ Strip(text) # <<>>
    /\ Head(Strip(text)) \notin {"J", "ka", "{", "N"}

\* map_event_to_trace_event: only an instance of the RunEvent / TeamRunEvent
\* enumerations passes the isinstance test, and such an instance has no
\* event attribute
map_event_to_trace_event(ev) ==
    IF ev.py # "enum" THEN None
    ELSE IF ev.event = "" THEN None
    ELSE IF ev.event = "tool_call_started"
    THEN IF EventToolName(ev) = "web_search_preview"
         THEN [type |-> "tool_call", tool |-> "web_search", message |-> "search"]
         ELSE [type |-> "tool_call", tool |-> EventToolName(ev), message |-> "tool"]
    ELSE IF ev.event = "tool_call_completed" /\ EventToolName(ev) = "web_search_preview"
    THEN [type |-> "tool_result", tool |-> "web_search", message |-> "search-done"]
    ELSE IF ev.event = "agent_delegated"
    THEN [type |-> "delegation", tool |-> "", message |-> "delegate"]
    ELSE None

(***************************************************************************)
(* The envelope reader, the fingerprints and the records.                  *)
(***************************************************************************)
\* int(hex_str, 16) succeeds on the first four characters: hex digits,
\* with the leading and trailing whitespace int() ignores
HexQuad(rest) ==
    /\ Len(rest) >= 4
    /\ \A i \in 1..4 : rest[i] \in {"c4", "sp", "nl"}
    /\ Strip(SubSeq(rest, 1, 4)) # <<>>
    /\ \A i \in 1..Len(Strip(SubSeq(rest, 1, 4))) : Strip(SubSeq(rest, 1, 4))[i] = "c4"

\* the tokens that begin with, or hold after one or two characters, a quote
\* that is not escaped: the characters before the quote
BeforeQuote(tok) ==
    CASE tok = "Q" -> <<>>
      [] tok = "J" -> <<"{">>
      [] tok = "ka" -> <<"{">>
      [] tok = "kc" -> <<"co", "{">>
      [] tok = "E" -> <<",">>
      [] tok = "Ed" -> <<",">>

QuoteTokens == {"Q", "J", "ka", "kc", "E", "Ed"}

\* the decoding loop with a \u escape that wants a character after its four
\* digits
RECURSIVE DecodeString_lookahead(_)
DecodeString_lookahead(raw) ==
    IF raw = <<>> THEN <<>>
    ELSE IF Head(raw) \in QuoteTokens THEN BeforeQuote(Head(raw))
    ELSE IF Head(raw) = "bn" THEN <<"nl">> \o DecodeString_lookahead(Tail(raw))
    ELSE IF Head(raw) = "bs"
    THEN IF Len(raw) = 1 THEN <<>>
         ELSE LET nxt == raw[2]
                  rest == SubSeq(raw, 3, Len(raw))
              IN  IF nxt = "Q" THEN <<"Q">> \o DecodeString_lookahead(rest)
                  ELSE IF nxt \in QuoteTokens THEN BeforeQuote(nxt)
                  ELSE IF nxt = "bs" THEN <<"bs">> \o DecodeString_lookahead(rest)
                  ELSE IF nxt = "bn" THEN <<"bs", "cn">> \o DecodeString_lookahead(rest)
                  ELSE IF nxt = "cn" THEN <<"nl">> \o DecodeString_lookahead(rest)
                  ELSE IF nxt = "cu"
                  THEN IF StrLen(rest) >= 5 /\ HexQuad(rest)
                       THEN <<IF Strip(SubSeq(rest, 1, 4)) = SubSeq(rest, 1, 4) THEN "c#" ELSE "c%">>
                            \o DecodeString_lookahead(SubSeq(rest, 5, Len(rest)))
                       ELSE <<"cu">> \o DecodeString_lookahead(rest)
                  ELSE IF TokLen(nxt) = 1 THEN <<nxt>> \o DecodeString_lookahead(rest)
                  ELSE <<"~">> \o DecodeString_lookahead(rest)
    ELSE <<Head(raw)>> \o DecodeString_lookahead(Tail(raw))

\* the decoding loop that stops at a \u escape short of four characters
RECURSIVE DecodeString_short_u_stops(_)
DecodeString_short_u_stops(raw) ==
    IF raw = <<>> THEN <<>>
    ELSE IF Head(raw) \in QuoteTokens THEN BeforeQuote(Head(raw))
    ELSE IF Head(raw) = "bn" THEN <<"nl">> \o DecodeString_short_u_stops(Tail(raw))
    ELSE IF Head(raw) = "bs"
    THEN IF Len(raw) = 1 THEN <<>>
         ELSE LET nxt == raw[2]
                  rest == SubSeq(raw, 3, Len(raw))
              IN  IF nxt = "Q" THEN <<"Q">> \o DecodeString_short_u_stops(rest)
                  ELSE IF nxt \in QuoteTokens THEN BeforeQuote(nxt)
                  ELSE IF nxt = "bs" THEN <<"bs">> \o DecodeString_short_u_stops(rest)
                  ELSE IF nxt = "bn" THEN <<"bs", "cn">> \o DecodeString_short_u_stops(rest)
                  ELSE IF nxt = "cn" THEN <<"nl">> \o DecodeString_short_u_stops(rest)
                  ELSE IF nxt = "cu"
                  THEN IF StrLen(rest) < 4 THEN <<>>
                       ELSE IF HexQuad(rest)
                       THEN <<IF Strip(SubSeq(rest, 1, 4)) = SubSeq(rest, 1, 4) THEN "c#" ELSE "c%">>
                            \o DecodeString_short_u_stops(SubSeq(rest, 5, Len(rest)))
                       ELSE <<"cu">> \o DecodeString_short_u_stops(rest)
                  ELSE IF TokLen(nxt) = 1 THEN <<nxt>> \o DecodeString_short_u_stops(rest)
                  ELSE <<"~">> \o DecodeString_short_u_stops(rest)
    ELSE <<Head(raw)>> \o DecodeString_short_u_stops(Tail(raw))

\* the decoding loop: the characters of the JSON string, up to the quote that
\* is not escaped or the end of the buffer.  After a backslash: a quote, a
\* backslash, the newline of \n, the character of \u and four hex digits, and
\* for any other character that character (the u of a \u escape that finds
\* fewer than four characters, or no number in them); a backslash that ends
\* the buffer ends the loop.  (A backslash before a text token of several
\* characters occurs in no buffer here; "~" stands for what it would leave.)
RECURSIVE DecodeString(_)
DecodeString(raw) ==
    IF raw = <<>> THEN <<>>
    ELSE IF Head(raw) \in QuoteTokens THEN BeforeQuote(Head(raw))
    ELSE IF Head(raw) = "bn" THEN <<"nl">> \o DecodeString(Tail(raw))
    ELSE IF Head(raw) = "bs"
    THEN IF Len(raw) = 1 THEN <<>>
         ELSE LET nxt == raw[2]
                  rest == SubSeq(raw, 3, Len(raw))
              IN  IF nxt = "Q" THEN <<"Q">> \o DecodeString(rest)
                  ELSE IF nxt \in QuoteTokens THEN BeforeQuote(nxt)
                  ELSE IF nxt = "bs" THEN <<"bs">> \o DecodeString(rest)
                  ELSE IF nxt = "bn" THEN <<"bs", "cn">> \o DecodeString(rest)
                  ELSE IF nxt = "cn" THEN <<"nl">> \o DecodeString(rest)
                  ELSE IF nxt = "cu"
                  THEN IF StrLen(rest) >= 4 /\ HexQuad(rest)
                       THEN <<IF Strip(SubSeq(rest, 1, 4)) = SubSeq(rest, 1, 4) THEN "c#" ELSE "c%">>
                            \o DecodeString(SubSeq(rest, 5, Len(rest)))
                       ELSE <<"cu">> \o DecodeString(rest)
                  ELSE IF TokLen(nxt) = 1 THEN <<nxt>> \o DecodeString(rest)
                  ELSE <<"~">> \o DecodeString(rest)
    ELSE <<Head(raw)>> \o DecodeString(Tail(raw))

\* raw.find(...): the first index from i on whose token is in the set (0: none)
RECURSIVE FindToken(_, _, _)
FindToken(raw, toks, i) ==
    IF i > Len(raw) THEN 0
    ELSE IF raw[i] \in toks THEN i
    ELSE FindToken(raw, toks, i + 1)

\* the tokens that hold "assistant" as a quoted key, "content" as a quoted
\* key, and a colon
AssistantTokens == {"J", "ka"}
ContentTokens == {"J", "kc"}
ColonTokens == {"co", "kc", "J", "u", "e"}

\* the index of the token that ends with the opening quote of the value of
\* "content" (0: the key, the colon or the quote is not located)
OpeningQuote(raw) ==
    LET a == FindToken(raw, AssistantTokens, 1) IN
    IF a = 0 THEN 0
    ELSE IF raw[a] = "J" THEN a
    ELSE LET c == FindToken(raw, ContentTokens, a + 1) IN
         IF c = 0 THEN 0
         ELSE IF raw[c] = "J" THEN c
         ELSE LET colon == FindToken(raw, ColonTokens, c + 1) IN
              IF colon = 0 THEN 0
              ELSE IF raw[colon] # "co" THEN 0
              ELSE LET q == SkipSpace(raw, colon + 1) IN
                   IF q <= Len(raw) /\ raw[q] = "Q" THEN q ELSE 0

\* extract_assistant_content_from_json: the value of assistant.content read
\* from a buffer that need not be complete ("" when the key, the colon or the
\* opening quote is not there yet)
extract_assistant_content_from_json(raw) ==
    IF OpeningQuote(raw) = 0 THEN <<>>
    ELSE DecodeString(SubSeq(raw, OpeningQuote(raw) + 1, Len(raw)))

\* str.lower()
LowerTok(tok) ==
    CASE tok = "w" -> "wl"
      [] tok = "t" -> "tl"
      [] tok = "k" -> "kl"
      [] tok = "J" -> "J"
      [] tok = "E" -> "E"
      [] OTHER -> tok

RECURSIVE Lower(_)
Lower(s) == IF s = <<>> THEN <<>> ELSE <<LowerTok(Head(s))>> \o Lower(Tail(s))

\* make_news_key that builds a key for an empty title too
make_news_key_no_title_check(art) ==
    Lower(Strip(art.title)) \o <<"|", art.publish_date, "|">> \o Lower(Strip(art.url))

\* make_news_key: f"{title.lower()}|{publish_date}|{url.lower()}", "" for an
\* empty title
make_news_key(art) ==
    IF Strip(art.title) = <<>> THEN <<>>
    ELSE Lower(Strip(art.title)) \o <<"|", art.publish_date, "|">> \o Lower(Strip(art.url))

\* make_news_doc_id: "news-" and the digest of the key
make_news_doc_id(news_key) == <<"news-">> \o news_key

\* the first loop, not looking at the keys seen before the call
RECURSIVE NewArticles_ignores_seen(_, _)
NewArticles_ignores_seen(arts, seen) ==
    IF arts = <<>> THEN <<>>
    ELSE LET key == make_news_key(Head(arts)) IN
         IF key = <<>> THEN NewArticles_ignores_seen(Tail(arts), seen)
         ELSE <<Head(arts)>> \o
              NewArticles_ignores_seen(
                  SelectSeq(Tail(arts), LAMBDA a : make_news_key(a) # key), seen)

\* the first loop, not marking the keys it keeps
RECURSIVE NewArticles_marks_nothing(_, _)
NewArticles_marks_nothing(arts, seen) ==
    IF arts = <<>> THEN <<>>
    ELSE LET key == make_news_key(Head(arts)) IN
         IF key = <<>> \/ key \in seen THEN NewArticles_marks_nothing(Tail(arts), seen)
         ELSE <<Head(arts)>> \o NewArticles_marks_nothing(Tail(arts), seen)

\* the first loop of build_news_records_from_articles: the articles whose
\* key is not empty and not seen, in order, each key marked seen
RECURSIVE NewArticles(_, _)
NewArticles(arts, seen) ==
    IF arts = <<>> THEN <<>>
    ELSE LET key == make_news_key(Head(arts)) IN
         IF key = <<>> \/ key \in seen THEN NewArticles(Tail(arts), seen)
         ELSE <<Head(arts)>> \o NewArticles(Tail(arts), seen \cup {key})

SeqRange(seq) == {seq[i] : i \in 1..Len(seq)}

\* the ids of a list of documents, in order
DocIds(documents) == [i \in 1..Len(documents) |-> documents[i].id]

\* the record named translations.get(original_title), with no default
DocumentRecord_no_fallback(art, translated) ==
    [id |-> make_news_doc_id(make_news_key(art)),
     name |-> IF art.title \in translated THEN <<"zh:">> \o art.title ELSE <<>>,
     type |-> "NEWS",
     publish_date |-> art.publish_date,
     url |-> art.url]

\* the record built for a new article; translated holds the titles for which
\* batch_translate_titles returned a translation
DocumentRecord(art, translated) ==
    [id |-> make_news_doc_id(make_news_key(art)),
     name |-> IF art.title \in translated THEN <<"zh:">> \o art.title ELSE art.title,
     type |-> "NEWS",
     publish_date |-> art.publish_date,
     url |-> art.url]

\* build_news_records_from_articles that leaves seen_keys as it found it
build_news_records_from_articles_forgets(arts, seen, translated) ==
    LET fresh == NewArticles(arts, seen) IN
    [documents |-> [i \in 1..Len(fresh) |-> DocumentRecord(fresh[i], translated)],
     seen |-> seen]

\* build_news_records_from_articles: the records returned, and seen_keys after
build_news_records_from_articles(arts, seen, translated) ==
    LET fresh == NewArticles(arts, seen) IN
    [documents |-> [i \in 1..Len(fresh) |-> DocumentRecord(fresh[i], translated)],
     seen |-> seen \cup {make_news_key(fresh[i]) : i \in 1..Len(fresh)}]

\* the titles batch_translate_titles is asked to translate in this call
TitlesToTranslate(arts, seen) ==
    {NewArticles(arts, seen)[i].title : i \in 1..Len(NewArticles(arts, seen))}

\* what batch_translate_titles can do with the titles of the new articles: it
\* returns translations for some of them, or its request fails and it
\* returns every title as it is
TranslateOutcomes(arts, seen) ==
    {[failed |-> FALSE, translated |-> titles] :
        titles \in SUBSET TitlesToTranslate(arts, seen)}
    \cup {[failed |-> TRUE, translated |-> {}]}

\* the translation requested once for each new article
TranslateCalls_per_record(arts, seen, outcome) ==
    [i \in 1..Len(NewArticles(arts, seen)) |->
        [titles |-> {NewArticles(arts, seen)[i].title}, failed |-> outcome.failed,
         translated |-> outcome.translated \cap {NewArticles(arts, seen)[i].title}]]

\* translations = batch_translate_titles(unique_titles) if unique_titles else {}
TranslateCalls(arts, seen, outcome) ==
    IF TitlesToTranslate(arts, seen) = {} THEN <<>>
    ELSE <<[titles |-> TitlesToTranslate(arts, seen), failed |-> outcome.failed,
            translated |-> outcome.translated]>>

\* json.loads accepts the text: the envelope opening, a string without raw
\* control characters, the closing quote and the rest of the envelope, with
\* optional whitespace around the envelope and before its rest
RECURSIVE StringBodyLen(_)
StringBodyLen(raw) ==
    IF raw = <<>> THEN 0
    ELSE IF Head(raw) \in {"Q", "J", "E", "Ed", "nl"} THEN 0
    ELSE 1 + StringBodyLen(Tail(raw))

IsEnvelope(text) ==
    LET t == Strip(text) IN
    /\ t # <<>>
    /\ Head(t) = "J"
    /\ LET n == StringBodyLen(Tail(t))
           rest == SubSeq(t, n + 2, Len(t))
       IN  /\ rest # <<>>
           /\ Head(rest) = "Q"
           /\ LStrip(Tail(rest)) \in {<<"E">>, <<"Ed">>}

\* text[start : end + 1] for the first "{" and the last "}"
RECURSIVE FirstIndexOf(_, _, _)
FirstIndexOf(text, tok, i) ==
    IF i > Len(text) THEN 0
    ELSE IF text[i] = tok THEN i
    ELSE FirstIndexOf(text, tok, i + 1)

RECURSIVE LastIndexOf(_, _, _)
LastIndexOf(text, tok, i) ==
    IF i < 1 THEN 0
    ELSE IF text[i] = tok THEN i
    ELSE LastIndexOf(text, tok, i - 1)

BraceSlice(text) ==
    LET start == FirstIndexOf(text, "J", 1)
        end == IF LastIndexOf(text, "E", Len(text)) > LastIndexOf(text, "Ed", Len(text))
               THEN LastIndexOf(text, "E", Len(text))
               ELSE LastIndexOf(text, "Ed", Len(text))
    IN  IF start # 0 /\ end # 0 /\ end > start THEN SubSeq(text, start, end) ELSE <<>>

\* the empty sections build_empty_response fills the schema with
EmptySummary ==
    [output |-> <<>>, borrower |-> [name |-> <<>>, description |-> <<>>, rating |-> <<>>],
     metrics |-> <<>>, risks |-> <<>>, source_doc_id |-> <<>>, source_doc_ids |-> <<>>]

EmptyTranslation ==
    [output |-> <<>>, clauses |-> <<>>, source_doc_id |-> <<>>, source_doc_ids |-> <<>>]

EmptyMemo ==
    [output |-> <<>>, sections |-> <<>>, recommendation |-> <<>>, conditions |-> <<>>]

\* build_empty_response(message): the artifact with every key of the schema.
\* The keys generate_sse may add later (documents_append, documents_update,
\* reasoning_summary) read <<>> while the dict has none; parsed tells the
\* artifact json.loads returned from the one built here
build_empty_response(message) ==
    [assistant_content |-> message, bullets |-> <<>>, summary |-> EmptySummary,
     translation |-> EmptyTranslation, memo |-> EmptyMemo, routing |-> <<>>,
     documents_append |-> <<>>, documents_update |-> <<>>, reasoning_summary |-> <<>>,
     parsed |-> FALSE]

\* the except branch losing the message
ErrorArtifact_no_message(exc) == build_empty_response(<<>>)

\* build_empty_response(f"<error prefix>{str(exc)}") of the except branches
ErrorArtifact(exc) == build_empty_response(<<"X">> \o exc)

\* what json.loads does with a text: it returns the value, or raises
\* JSONDecodeError, or, when the text opens with arrays nested deeper than
\* the recursion limit, raises RecursionError
JsonLoads(text) ==
    IF Strip(text) # <<>> /\ Head(Strip(text)) = "N" THEN "RecursionError"
    ELSE IF IsEnvelope(text) THEN "value"
    ELSE "JSONDecodeError"

\* the document an envelope carries in a documents_append list of its own
OwnDocument ==
    [id |-> <<"own">>, name |-> <<"own">>, type |-> "NEWS", publish_date |-> <<>>,
     url |-> <<>>]

\* the dict json.loads returns for the envelope: the envelope of the model
\* has the assistant section and, when it ends with "Ed", documents_append
ParsedEnvelope(text) ==
    [assistant_content |-> extract_assistant_content_from_json(text), bullets |-> <<>>,
     summary |-> Absent, translation |-> Absent, memo |-> Absent, routing |-> <<>>,
     documents_append |-> IF "Ed" \in SeqRange(text) THEN <<OwnDocument>> ELSE <<>>,
     documents_update |-> <<>>, reasoning_summary |-> <<>>,
     parsed |-> TRUE]

\* an exception leaving a function
Raised(exception, message) == [exception |-> exception, message |-> message]

IsRaised(result) == "exception" \in DOMAIN result

\* safe_parse_json: the parsed envelope, or the fallback artifact, or the
\* exception that is no JSONDecodeError
safe_parse_json(text) ==
    IF JsonLoads(text) = "value" THEN ParsedEnvelope(text)
    ELSE IF JsonLoads(text) = "RecursionError" THEN Raised("RecursionError", <<"R">>)
    ELSE IF BraceSlice(text) # <<>> /\ JsonLoads(BraceSlice(text)) = "value"
    THEN ParsedEnvelope(BraceSlice(text))
    ELSE IF BraceSlice(text) # <<>> /\ JsonLoads(BraceSlice(text)) = "RecursionError"
    THEN Raised("RecursionError", <<"R">>)
    ELSE build_empty_response(<<"F">> \o TakeChars(text, 200) \o <<"...">>)

\* build_news_documents with the streaming segmenter
FinalArticles_streaming(data, web_search) ==
    IF ~web_search THEN <<>>
    ELSE IF data.assistant_content = <<>> THEN <<>>
    ELSE parse_news_articles_streaming(data.assistant_content)

\* build_news_documents: the articles of the final assistant.content
FinalArticles(data, web_search) ==
    IF ~web_search THEN <<>>
    ELSE IF data.assistant_content = <<>> THEN <<>>
    ELSE parse_news_articles(data.assistant_content)

(***************************************************************************)
(* The segmenter applied to texts.  SpecSection grows one segment token by *)
(* token and validates it; SpecParse grows a buffer by content chunks and  *)
(* segments it in batch and in streaming mode.                             *)
(***************************************************************************)
MaxSectionLen == 4
MaxChunks == 5

SectionTokens == {"nl", "sp", "w", "t", "M", "k", "u", "d", "e"}

Delim == <<"nl", "h", "sp">>
HeadingMarker == <<"h", "sp">>
ArtA == <<"w", "nl", "d", "nl", "u">>
ArtB == <<"t", "t", "nl", "u">>
ArtShort == <<"w", "nl", "d">>

Chunks == {Delim, HeadingMarker, ArtA, ArtB, ArtShort, <<"t">>, <<"nl">>}

\* no run of generate_sse is in progress
\* the stores and the session table when the server has started: the one
\* NewsStore of the module on an empty database, no tags, no session
StoresIdle ==
    /\ tag_store = <<>>
    /\ active_sessions = <<>>
    /\ now = 0
    /\ instances = <<{}>>
    /\ invoked = None
    /\ returned = None

RunIdle ==
    /\ pc = "idle"
    /\ image_inputs = FALSE
    /\ use_web_search = FALSE
    /\ routing_state = <<>>
    /\ event = None
    /\ pulled = 0
    /\ accumulated = <<>>
    /\ assistant_content_len = 0
    /\ streamed_news_keys = {}
    /\ reasoning_fragments = <<>>
    /\ emitted = <<>>
    /\ ocr_updates = <<>>
    /\ news_records = {}
    /\ sent_documents = <<>>
    /\ raised = FALSE
    /\ translate_calls = <<>>
    /\ runs = <<>>
    /\ StoresIdle

ParseInit ==
    /\ RunIdle
    /\ content = <<>>
    /\ grown = 0
    /\ call = "none"
    /\ article = None
    /\ articles = <<>>
    /\ routing_log = <<>>
    /\ routing_update = None
    /\ should_send = FALSE
    /\ calls = 0

GrowSection(tok) ==
    /\ grown < MaxSectionLen
    /\ content' = Append(content, tok)
    /\ grown' = grown + 1
    /\ call' = "none"
    /\ article' = None
    /\ articles' = <<>>
    /\ UNCHANGED <<logVars, runVars>>

CallSection ==
    /\ call = "none"
    /\ call' = "section"
    /\ article' = parse_news_section(content)
    /\ UNCHANGED <<content, grown, articles, logVars, runVars>>

GrowBuffer(chunk) ==
    /\ grown < MaxChunks
    /\ content' = content \o chunk
    /\ grown' = grown + 1
    /\ call' = "none"
    /\ article' = None
    /\ articles' = <<>>
    /\ UNCHANGED <<logVars, runVars>>

CallBatch ==
    /\ call = "none"
    /\ call' = "batch"
    /\ articles' = parse_news_articles(content)
    /\ UNCHANGED <<content, grown, article, logVars, runVars>>

CallStreaming ==
    /\ call = "none"
    /\ call' = "streaming"
    /\ articles' = parse_news_articles_streaming(content)
    /\ UNCHANGED <<content, grown, article, logVars, runVars>>

SectionNext ==
    \/ \E tok \in SectionTokens : GrowSection(tok)
    \/ CallSection

ParseNext ==
    \/ \E chunk \in Chunks : GrowBuffer(chunk)
    \/ CallBatch
    \/ CallStreaming

SpecSection == ParseInit /\ [][SectionNext]_vars

SpecParse == ParseInit /\ [][ParseNext]_vars

(***************************************************************************)
(* The merger applied to status updates: one log, starting empty as in     *)
(* generate_sse, and any sequence of updates.                              *)
(***************************************************************************)
MaxCalls == 4

UpdateIds == {"t1", "run-main", "ocr"}

Updates ==
    {Entry(id, "step", status, eta, stage) :
        id \in UpdateIds, status \in {"running", "done"},
        eta \in {"", "in-progress"}, stage \in {Absent, "search"}}

ApplyUpdate(update) ==
    /\ calls < MaxCalls
    /\ calls' = calls + 1
    /\ routing_log' = update_routing_log(routing_log, update).log
    /\ should_send' = update_routing_log(routing_log, update).changed
    /\ routing_update' = update
    /\ UNCHANGED <<parseVars, runVars>>

LogNext == \E update \in Updates : ApplyUpdate(update)

SpecLog == ParseInit /\ [][LogNext]_vars

\* the frames generate_sse yields: data: {kind: ...}
Frame(kind) ==
    [kind |-> kind, update |-> None, text |-> <<>>, documents |-> <<>>, data |-> None]

\* data: {"routing_update": update}
RoutingFrame(update) == [Frame("routing_update") EXCEPT !.update = update]

\* data: {"log_chunk": line}; the line is named by what it reports
LogFrame(line) == [Frame("log_chunk") EXCEPT !.text = <<line>>]

\* data: {"trace_event": trace_event}
TraceFrame(trace_event) == [Frame("trace_event") EXCEPT !.data = trace_event]

\* data: {"chunk": content}
ChunkFrame(text) == [Frame("chunk") EXCEPT !.text = text]

\* data: {"documents_append": new_docs}
DocumentsFrame(documents) == [Frame("documents_append") EXCEPT !.documents = documents]

\* the final artifact wrapped as {"error": ...}
FinalFrame_as_error(data) == [Frame("error") EXCEPT !.data = data]

\* data: the final artifact
FinalFrame(data) == [Frame("final") EXCEPT !.data = data]

\* data: {"done": true}
DoneFrame == Frame("done")

\* INSERT OR REPLACE of each record, by id
AddRecords(store, documents) ==
    {r \in store : \A i \in 1..Len(documents) : documents[i].id # r.id}
        \cup SeqRange(documents)

(***************************************************************************)
(* The partial-field reader applied to buffers: a buffer grows by pieces   *)
(* of the envelope and of a string with escapes, and is read at any point. *)
(***************************************************************************)
MaxFieldChunks == 4

FieldChunks ==
    {<<"J">>, <<"ka">>, <<"kc">>, <<"co">>, <<"sp">>, <<"Q">>, <<"cx">>, <<"c4">>,
     <<"c4", "c4", "c4", "c4">>, <<"bs">>, <<"bn">>, <<"bs", "cu">>, <<"bs", "Q">>}

\* the buffer receives one more piece
GrowRaw(chunk) ==
    /\ grown < MaxFieldChunks
    /\ grown' = grown + 1
    /\ accumulated' = accumulated \o chunk
    /\ call' = "none"
    /\ content' = <<>>
    /\ UNCHANGED <<article, articles, logVars, pc, image_inputs, use_web_search,
                   routing_state, event, pulled, assistant_content_len,
                   streamed_news_keys, reasoning_fragments, emitted, ocr_updates,
                   news_records, sent_documents,
                   raised, translate_calls, runs, storeVars>>

\* assistant_content = extract_assistant_content_from_json(accumulated)
ReadField ==
    /\ call = "none"
    /\ call' = "field"
    /\ content' = extract_assistant_content_from_json(accumulated)
    /\ UNCHANGED <<grown, article, articles, logVars, pc, image_inputs, use_web_search,
                   routing_state, event, pulled, accumulated, assistant_content_len,
                   streamed_news_keys, reasoning_fragments, emitted, ocr_updates,
                   news_records, sent_documents,
                   raised, translate_calls, runs, storeVars>>

FieldNext ==
    \/ \E chunk \in FieldChunks : GrowRaw(chunk)
    \/ ReadField

SpecField == ParseInit /\ [][FieldNext]_vars

(***************************************************************************)
(* The dedup registry applied to lists of candidate records: one seen set, *)
(* shared by successive calls as in a run, and any list of candidates.     *)
(***************************************************************************)
MaxArticles == 3

\* candidates: a blank title, a title of spaces, two titles that differ in
\* case only, a third title, and a record without date and URL
Candidates ==
    {Article(title, <<"M">>, "2025-12-28", <<"u">>) :
        title \in {<<>>, <<"sp">>, <<"w">>, <<"wl">>, <<"t", "t">>}}
    \cup {Article(<<"w">>, <<"M">>, "", <<>>)}

\* the keys a seen set may hold when the first call is made
SeedKeys ==
    {make_news_key(Article(<<"w">>, <<"M">>, "2025-12-28", <<"u">>)),
     make_news_key(Article(<<"t", "t">>, <<"M">>, "2025-12-28", <<"u">>))}

DedupInit ==
    /\ content = <<>>
    /\ grown = 0
    /\ call = "none"
    /\ article = None
    /\ articles = <<>>
    /\ routing_log = <<>>
    /\ routing_update = None
    /\ should_send = FALSE
    /\ calls = 0
    /\ pc = "idle"
    /\ image_inputs = FALSE
    /\ use_web_search = FALSE
    /\ routing_state = <<>>
    /\ event = None
    /\ pulled = 0
    /\ accumulated = <<>>
    /\ assistant_content_len = 0
    /\ streamed_news_keys \in SUBSET SeedKeys
    /\ reasoning_fragments = <<>>
    /\ emitted = <<>>
    /\ ocr_updates = <<>>
    /\ news_records = {}
    /\ sent_documents = <<>>
    /\ raised = FALSE
    /\ translate_calls = <<>>
    /\ runs = <<>>
    /\ StoresIdle

\* the caller puts one more candidate on the list of the next call
AddCandidate(art) ==
    /\ call # "none" \/ Len(articles) < MaxArticles
    /\ articles' = IF call = "none" THEN Append(articles, art) ELSE <<art>>
    /\ call' = "none"
    /\ emitted' = <<>>
    /\ UNCHANGED <<content, grown, article, logVars, pc, image_inputs, use_web_search,
                   routing_state, event, pulled, accumulated, assistant_content_len,
                   streamed_news_keys, reasoning_fragments, ocr_updates, news_records,
                   sent_documents,
                   raised, translate_calls, runs, storeVars>>

\* build_news_records_from_articles(input, seen_keys=streamed_news_keys)
Dedup(input, name) ==
    /\ call = "none"
    /\ call' = name
    /\ \E outcome \in TranslateOutcomes(input, streamed_news_keys) :
          LET translated == outcome.translated
              built == build_news_records_from_articles(input, streamed_news_keys, translated)
          IN  /\ translate_calls' = TranslateCalls(input, streamed_news_keys, outcome)
              /\ streamed_news_keys' = built.seen
              /\ news_records' = AddRecords(news_records, built.documents)
              /\ emitted' = IF built.documents # <<>>
                            THEN <<DocumentsFrame(built.documents)>> ELSE <<>>
    /\ UNCHANGED <<content, grown, article, articles, logVars, pc, image_inputs,
                   use_web_search, routing_state, event, pulled, accumulated,
                   assistant_content_len, reasoning_fragments, ocr_updates, sent_documents,
                   raised, runs, storeVars>>

\* the list is deduplicated
CallDedup == Dedup(articles, "dedup")

\* the list concatenated with itself is deduplicated
CallDedupTwice == Dedup(articles \o articles, "dedup-twice")

DedupNext ==
    \/ \E art \in Candidates : AddCandidate(art)
    \/ CallDedup
    \/ CallDedupTwice

SpecDedup == DedupInit /\ [][DedupNext]_vars

(***************************************************************************)
(* A streaming run: generate_sse from its first line to the done frame.    *)
(* Each action is the code between two points where the generator can be   *)
(* observed; emitted holds the frames that code yielded, in order.         *)
(***************************************************************************)
MaxEvents == 3

RawDelim == <<"bn", "h", "sp">>
RawArtA == <<"w", "bn", "d", "bn", "u">>
RawArtB == <<"t", "t", "bn", "u">>

\* what the model streams: the envelope opening with a first article, a
\* further article, the closing of the envelope, and deeply nested arrays
ContentChunks ==
    {<<"J">> \o RawDelim \o RawArtA, RawDelim \o RawArtB, <<"Q", "E">>, <<"N">>}

\* a tool call with an id, and one without (its key falls back to name and
\* creation time)
SearchTool == Tool("t1", "web_search", 1)
CalcTool == Tool("", "calc_tool", 2)

Events ==
    {EventObject("RunContent", chunk, <<>>, NoTool) : chunk \in ContentChunks}
    \cup {EventObject(name, <<>>, <<>>, NoTool) :
             name \in {"TeamRunContentCompleted", "RunStarted", "RunError"}}
    \cup {EventObject("RunIntermediateContent", <<"J">> \o RawDelim \o RawArtA, <<>>, NoTool)}
    \cup {EventObject("ReasoningStep", <<>>, <<"t", "sp">>, NoTool)}
    \cup {EventObject(name, <<>>, <<>>, SearchTool) :
             name \in {"ToolCallStarted", "ToolCallCompleted"}}
    \cup {EventObject("ToolCallError", <<>>, <<>>, CalcTool)}
    \cup {TextEvent(<<"t">>)}

\* str(exc) of what the generation stream raises
Exceptions == {<<>>, <<"t">>}

ocr_start == Entry("ocr", "ocr", "running", "in-progress", Absent)

ocr_done == Entry("ocr", "ocr", "done", "complete", Absent)

run_start == Entry("run-main", "model-generation", "running", "in-progress", Absent)

run_done == Entry("run-main", "model-generation", "done", "complete", Absent)

\* if update_routing_log(routing_log, update): yield the update
MergeAndYield(update) ==
    /\ routing_log' = update_routing_log(routing_log, update).log
    /\ should_send' = update_routing_log(routing_log, update).changed
    /\ routing_update' = update
    /\ calls' = calls + 1

YieldIfChanged(update) ==
    IF update_routing_log(routing_log, update).changed THEN <<RoutingFrame(update)>> ELSE <<>>

\* the request arrives: fresh locals, and the route decides the two flags
Init ==
    /\ content = <<>>
    /\ grown = 0
    /\ call = "none"
    /\ article = None
    /\ articles = <<>>
    /\ routing_log = <<>>
    /\ routing_update = None
    /\ should_send = FALSE
    /\ calls = 0
    /\ pc = "start"
    /\ image_inputs \in BOOLEAN
    /\ use_web_search \in BOOLEAN
    /\ routing_state = <<>>
    /\ event = None
    /\ pulled = 0
    /\ accumulated = <<>>
    /\ assistant_content_len = 0
    /\ streamed_news_keys = {}
    /\ reasoning_fragments = <<>>
    /\ emitted = <<>>
    /\ ocr_updates = <<>>
    /\ news_records = {}
    /\ sent_documents = <<>>
    /\ raised = FALSE
    /\ translate_calls = <<>>
    /\ runs = <<>>
    /\ StoresIdle

\* if image_inputs: the OCR step is logged as running
OcrStart ==
    /\ pc = "start"
    /\ image_inputs
    /\ pc' = "ocr"
    /\ MergeAndYield(ocr_start)
    /\ emitted' = YieldIfChanged(ocr_start)
    /\ UNCHANGED <<parseVars, image_inputs, use_web_search, routing_state, event, pulled,
                   accumulated, assistant_content_len, streamed_news_keys,
                   reasoning_fragments, ocr_updates, news_records, sent_documents,
                   raised, runs, storeVars>>
    /\ translate_calls' = <<>>

\* run_ocr_for_documents returns its updates; the OCR step is logged as done
OcrDone ==
    /\ pc = "ocr"
    /\ pc' = "built"
    /\ ocr_updates' \in {<<>>, <<"ocr-text">>}
    /\ MergeAndYield(ocr_done)
    /\ emitted' = YieldIfChanged(ocr_done)
    /\ UNCHANGED <<parseVars, image_inputs, use_web_search, routing_state, event, pulled,
                   accumulated, assistant_content_len, streamed_news_keys,
                   reasoning_fragments, news_records, sent_documents,
                   raised, runs, storeVars>>
    /\ translate_calls' = <<>>

\* the team is built, run-main is logged as running, team.run is called
RunStart ==
    /\ pc = "built" \/ (pc = "start" /\ ~image_inputs)
    /\ pc' = "stream"
    /\ MergeAndYield(run_start)
    /\ emitted' = YieldIfChanged(run_start)
    /\ UNCHANGED <<parseVars, image_inputs, use_web_search, routing_state, event, pulled,
                   accumulated, assistant_content_len, streamed_news_keys,
                   reasoning_fragments, ocr_updates, news_records, sent_documents,
                   raised, runs, storeVars>>
    /\ translate_calls' = <<>>

\* the routing part yielding its update twice
RoutingFrames_twice(update) ==
    IF update = None THEN <<>>
    ELSE <<LogFrame("route-built"), LogFrame("dedup-check")>>
         \o (IF update_routing_log(routing_log, update).changed
             THEN <<LogFrame("push"), RoutingFrame(update), RoutingFrame(update)>>
             ELSE <<>>)

\* the frames of the routing part of one loop iteration
RoutingFrames(update) ==
    IF update = None THEN <<>>
    ELSE <<LogFrame("route-built"), LogFrame("dedup-check")>>
         \o (IF update_routing_log(routing_log, update).changed
             THEN <<LogFrame("push"), RoutingFrame(update)>>
             ELSE <<>>)

EventNameFrames(ev) == IF ev.event # "" THEN <<LogFrame("event-name")>> ELSE <<>>

ReasoningFrames(ev) ==
    IF extract_reasoning_text(ev) # <<>> THEN <<LogFrame("reasoning")>> ELSE <<>>

\* the frame of the trace part: a web-search routing update built here and
\* yielded without a merge, or the trace event
TraceFrames(ev) ==
    LET trace_event == map_event_to_trace_event(ev) IN
    IF trace_event = None THEN <<>>
    ELSE IF trace_event.tool = "web_search"
    THEN <<RoutingFrame(
              IF trace_event.type = "tool_call"
              THEN Entry("web-search", trace_event.message, "running", "searching", "searching")
              ELSE Entry("web-search", trace_event.message, "done", "complete", "complete"))>>
    ELSE <<TraceFrame(trace_event)>>

\* the increment check that re-runs the segmenter on any non-empty field
ShouldCheck_any_length(web_search, assistant_content, checked_len) ==
    web_search /\ assistant_content # <<>>

\* if use_web_search: ... if assistant_content and
\* len(assistant_content) > assistant_content_len
ShouldCheck(web_search, assistant_content, checked_len) ==
    /\ web_search
    /\ assistant_content # <<>>
    /\ StrLen(assistant_content) > checked_len

\* one iteration of "for event in response"
HandleEvent(ev) ==
    /\ pc = "stream"
    /\ pulled < MaxEvents
    /\ pulled' = pulled + 1
    /\ event' = ev
    /\ routing_state' = build_routing_state(ev, routing_state)
    /\ LET update == build_routing_update(ev, routing_state)
           text == extract_stream_text(ev)
           buffer == accumulated \o text
           assistant_content == extract_assistant_content_from_json(buffer)
           checked == /\ text # <<>>
                      /\ ShouldCheck(use_web_search, assistant_content,
                                     assistant_content_len)
           found == IF checked THEN parse_news_articles_streaming(assistant_content) ELSE <<>>
       IN  /\ routing_update' = update
           /\ IF update = None
              THEN UNCHANGED <<routing_log, should_send, calls>>
              ELSE /\ routing_log' = update_routing_log(routing_log, update).log
                   /\ should_send' = update_routing_log(routing_log, update).changed
                   /\ calls' = calls + 1
           /\ reasoning_fragments' =
                 IF extract_reasoning_text(ev) # <<>>
                 THEN Append(reasoning_fragments, extract_reasoning_text(ev))
                 ELSE reasoning_fragments
           /\ accumulated' = buffer
           /\ assistant_content_len' =
                 IF checked THEN StrLen(assistant_content) ELSE assistant_content_len
           /\ call' = IF checked THEN "streaming" ELSE "none"
           /\ content' = IF checked THEN assistant_content ELSE <<>>
           /\ articles' = found
           /\ \E outcome \in TranslateOutcomes(found, streamed_news_keys) :
                 LET translated == outcome.translated
                     built == build_news_records_from_articles(
                                  found, streamed_news_keys, translated)
                 IN  /\ translate_calls' = TranslateCalls(found, streamed_news_keys, outcome)
                     /\ streamed_news_keys' = built.seen
                     /\ news_records' = AddRecords(news_records, built.documents)
                     /\ sent_documents' = sent_documents \o DocIds(built.documents)
                     /\ emitted' =
                           RoutingFrames(update) \o EventNameFrames(ev)
                           \o ReasoningFrames(ev) \o TraceFrames(ev)
                           \o (IF text # <<>> THEN <<ChunkFrame(text)>> ELSE <<>>)
                           \o (IF built.documents # <<>>
                               THEN <<DocumentsFrame(built.documents)>> ELSE <<>>)
    /\ UNCHANGED <<grown, article, pc, image_inputs, use_web_search, ocr_updates,
                   raised, runs, storeVars>>

\* the stream is exhausted: run-main is logged as done and the final
\* artifact is assembled and yielded; an exception of safe_parse_json ends
\* in the except branch, which yields the error artifact
StreamEnd ==
    /\ pc = "stream"
    /\ pc' = "final"
    /\ MergeAndYield(run_done)
    /\ LET log == update_routing_log(routing_log, run_done).log
           final_data == safe_parse_json(accumulated)
           found == IF IsRaised(final_data) THEN <<>>
                    ELSE FinalArticles(final_data, use_web_search)
           summary == build_reasoning_summary(reasoning_fragments)
       IN  IF accumulated # <<>> /\ ~IsRaised(final_data)
           THEN /\ call' = IF use_web_search /\ final_data.assistant_content # <<>>
                           THEN "batch" ELSE "none"
                /\ content' = IF use_web_search THEN final_data.assistant_content ELSE <<>>
                /\ articles' = found
                /\ \E outcome \in TranslateOutcomes(found, streamed_news_keys) :
                      LET translated == outcome.translated
                          built == build_news_records_from_articles(
                                       found, streamed_news_keys, translated)
                      IN  /\ translate_calls' =
                                TranslateCalls(found, streamed_news_keys, outcome)
                          /\ streamed_news_keys' = built.seen
                          /\ news_records' = AddRecords(news_records, built.documents)
                          /\ sent_documents' =
                                sent_documents
                                \o DocIds(final_data.documents_append \o built.documents)
                          /\ emitted' =
                                YieldIfChanged(run_done)
                                \o <<FinalFrame([final_data EXCEPT
                                        !.routing = IF log # <<>> THEN log ELSE @,
                                        !.documents_update =
                                            IF ocr_updates # <<>> THEN ocr_updates ELSE @,
                                        !.reasoning_summary =
                                            IF summary # <<>> THEN summary ELSE @,
                                        !.documents_append = @ \o built.documents])>>
           ELSE /\ emitted' = YieldIfChanged(run_done)
                                 \o <<FinalFrame(IF accumulated = <<>>
                                                 THEN build_empty_response(<<"G">>)
                                                 ELSE ErrorArtifact(final_data.message))>>
                /\ call' = "none"
                /\ content' = <<>>
                /\ articles' = <<>>
                /\ translate_calls' = <<>>
                /\ UNCHANGED <<streamed_news_keys, news_records, sent_documents>>
    /\ UNCHANGED <<grown, article, image_inputs, use_web_search, routing_state, event, pulled,
                   accumulated, assistant_content_len, reasoning_fragments, ocr_updates,
                   raised, runs, storeVars>>

\* the except branch of a generator whose done frame is the last statement
\* of the try block
StreamRaises_without_done ==
    /\ pc = "stream"
    /\ pc' = "ended"
    /\ \E exc \in Exceptions : emitted' = <<FinalFrame(ErrorArtifact(exc))>>
    /\ UNCHANGED <<parseVars, logVars, image_inputs, use_web_search, routing_state, event,
                   pulled, accumulated, assistant_content_len, streamed_news_keys,
                   reasoning_fragments, ocr_updates, news_records, sent_documents, runs, storeVars>>
    /\ translate_calls' = <<>>
    /\ raised' = TRUE

\* the generation stream raises: the except branch yields the error artifact
StreamRaises ==
    /\ pc = "stream"
    /\ pc' = "final"
    /\ \E exc \in Exceptions : emitted' = <<FinalFrame(ErrorArtifact(exc))>>
    /\ UNCHANGED <<parseVars, logVars, image_inputs, use_web_search, routing_state, event,
                   pulled, accumulated, assistant_content_len, streamed_news_keys,
                   reasoning_fragments, ocr_updates, news_records, sent_documents, runs, storeVars>>
    /\ translate_calls' = <<>>
    /\ raised' = TRUE

\* the last frame of every run
Finish ==
    /\ pc = "final"
    /\ pc' = "done"
    /\ emitted' = <<DoneFrame>>
    /\ UNCHANGED <<parseVars, logVars, image_inputs, use_web_search, routing_state, event,
                   pulled, accumulated, assistant_content_len, streamed_news_keys,
                   reasoning_fragments, ocr_updates, news_records, sent_documents,
                   raised, runs, storeVars>>
    /\ translate_calls' = <<>>

Next ==
    \/ OcrStart
    \/ OcrDone
    \/ RunStart
    \/ \E ev \in Events : HandleEvent(ev)
    \/ StreamEnd
    \/ StreamRaises
    \/ Finish

Spec == Init /\ [][Next]_vars

\* the content event that closes an envelope carrying a documents_append
\* list of its own
OwnDocsEvent == EventObject("RunContent", <<"Q", "Ed">>, <<>>, NoTool)

\* the runs of generate_sse, those whose envelope has its own documents too
NextOwnDocs ==
    \/ Next
    \/ HandleEvent(OwnDocsEvent)

SpecOwnDocs == Init /\ [][NextOwnDocs]_vars

\* the tool calls of a run: two that carry a tool_call_id, and three that
\* carry none, two of them made with the same tool in the same second
OtherSearchTool == Tool("t2", "web_search", 1)
FirstSearch == ToolCall("web_search", 1, "q1")
SecondSearch == ToolCall("web_search", 1, "q2")
LaterSearch == ToolCall("web_search", 2, "q1")

ToolCalls == {SearchTool, OtherSearchTool, FirstSearch, SecondSearch, LaterSearch}

ToolCallEvents ==
    {EventObject(name, <<>>, <<>>, tool) :
        name \in {"ToolCallStarted", "ToolCallCompleted"}, tool \in ToolCalls}

\* the runs of generate_sse whose events are the lifecycle events of tool
\* calls
NextTools ==
    \/ OcrStart
    \/ OcrDone
    \/ RunStart
    \/ \E ev \in ToolCallEvents : HandleEvent(ev)
    \/ StreamEnd
    \/ StreamRaises
    \/ Finish

SpecTools == Init /\ [][NextTools]_vars

(***************************************************************************)
(* The small-talk route streams with generate_smalltalk_sse, and the       *)
(* consumer of either generator may stop consuming.  SpecRuns is every run *)
(* of either generator, disconnected or not; FairRuns adds that a run      *)
(* which is not disconnected is driven to its end.                         *)
(***************************************************************************)
\* route.mode == "simple" and req.stream
SmalltalkInit ==
    /\ content = <<>>
    /\ grown = 0
    /\ call = "none"
    /\ article = None
    /\ articles = <<>>
    /\ routing_log = <<>>
    /\ routing_update = None
    /\ should_send = FALSE
    /\ calls = 0
    /\ pc = "smalltalk"
    /\ image_inputs = FALSE
    /\ use_web_search = FALSE
    /\ routing_state = <<>>
    /\ event = None
    /\ pulled = 0
    /\ accumulated = <<>>
    /\ assistant_content_len = 0
    /\ streamed_news_keys = {}
    /\ reasoning_fragments = <<>>
    /\ emitted = <<>>
    /\ ocr_updates = <<>>
    /\ news_records = {}
    /\ sent_documents = <<>>
    /\ raised = FALSE
    /\ translate_calls = <<>>
    /\ runs = <<>>
    /\ StoresIdle

\* the first frame: run-main running, yielded without a status log
SmalltalkStart ==
    /\ pc = "smalltalk"
    /\ pc' = "smalltalk-stream"
    /\ emitted' = <<RoutingFrame(run_start)>>
    /\ translate_calls' = <<>>
    /\ UNCHANGED <<parseVars, logVars, image_inputs, use_web_search, routing_state, event,
                   pulled, accumulated, assistant_content_len, streamed_news_keys,
                   reasoning_fragments, ocr_updates, news_records, sent_documents,
                   raised, runs, storeVars>>

\* one iteration of "for event in response" of generate_smalltalk_sse
SmalltalkEvent(ev) ==
    /\ pc = "smalltalk-stream"
    /\ pulled < MaxEvents
    /\ pulled' = pulled + 1
    /\ event' = ev
    /\ reasoning_fragments' =
          IF extract_reasoning_text(ev) # <<>>
          THEN Append(reasoning_fragments, extract_reasoning_text(ev))
          ELSE reasoning_fragments
    /\ accumulated' = accumulated \o extract_stream_text(ev)
    /\ emitted' =
          (IF map_event_to_trace_event(ev) # None
           THEN <<TraceFrame(map_event_to_trace_event(ev))>> ELSE <<>>)
          \o (IF extract_stream_text(ev) # <<>>
              THEN <<ChunkFrame(extract_stream_text(ev))>> ELSE <<>>)
    /\ translate_calls' = <<>>
    /\ UNCHANGED <<parseVars, logVars, pc, image_inputs, use_web_search, routing_state,
                   assistant_content_len, streamed_news_keys, ocr_updates, news_records,
                   sent_documents, raised, runs, storeVars>>

\* the stream is exhausted: the text received, or the greeting, is sent as
\* the final artifact
SmalltalkEnd ==
    /\ pc = "smalltalk-stream"
    /\ pc' = "final"
    /\ emitted' =
          <<FinalFrame([build_empty_response(IF accumulated # <<>> THEN accumulated
                                             ELSE <<"H">>) EXCEPT
                           !.routing = <<run_done>>,
                           !.reasoning_summary =
                               IF reasoning_fragments # <<>>
                               THEN build_reasoning_summary(reasoning_fragments)
                               ELSE @])>>
    /\ translate_calls' = <<>>
    /\ UNCHANGED <<parseVars, logVars, image_inputs, use_web_search, routing_state, event,
                   pulled, accumulated, assistant_content_len, streamed_news_keys,
                   reasoning_fragments, ocr_updates, news_records, sent_documents,
                   raised, runs, storeVars>>

\* the generation stream raises: the except branch yields the error artifact
SmalltalkRaises ==
    /\ pc = "smalltalk-stream"
    /\ pc' = "final"
    /\ \E exc \in Exceptions : emitted' = <<FinalFrame(ErrorArtifact(exc))>>
    /\ translate_calls' = <<>>
    /\ raised' = TRUE
    /\ UNCHANGED <<parseVars, logVars, image_inputs, use_web_search, routing_state, event,
                   pulled, accumulated, assistant_content_len, streamed_news_keys,
                   reasoning_fragments, ocr_updates, news_records, sent_documents, runs, storeVars>>

SmalltalkNext ==
    \/ SmalltalkStart
    \/ \E ev \in Events : SmalltalkEvent(ev)
    \/ SmalltalkEnd
    \/ SmalltalkRaises

\* a generator whose except branch also catches the exception that closes
\* it, and yields its error artifact to the consumer that went away
Disconnect_caught ==
    /\ pc \in {"ocr", "built", "stream", "smalltalk-stream", "final", "done"}
    /\ emitted # <<>>
    /\ pc' = "closed"
    /\ emitted' = <<FinalFrame(ErrorArtifact(<<>>))>>
    /\ translate_calls' = <<>>
    /\ UNCHANGED <<parseVars, logVars, image_inputs, use_web_search, routing_state, event,
                   pulled, accumulated, assistant_content_len, streamed_news_keys,
                   reasoning_fragments, ocr_updates, news_records, sent_documents,
                   raised, runs, storeVars>>

\* the consumer goes away while the generator is suspended at the frame it
\* yielded last: the generator is closed there (the exception that closes
\* it is no Exception, so no except branch runs) and nothing after that
\* yield is executed
Disconnect ==
    /\ pc \in {"ocr", "built", "stream", "smalltalk-stream", "final", "done"}
    /\ emitted # <<>>
    /\ pc' = "closed"
    /\ emitted' = <<>>
    /\ translate_calls' = <<>>
    /\ UNCHANGED <<parseVars, logVars, image_inputs, use_web_search, routing_state, event,
                   pulled, accumulated, assistant_content_len, streamed_news_keys,
                   reasoning_fragments, ocr_updates, news_records, sent_documents,
                   raised, runs, storeVars>>

RunsNext ==
    \/ Next
    \/ SmalltalkNext
    \/ Disconnect

SpecRuns == (Init \/ SmalltalkInit) /\ [][RunsNext]_vars

\* A generator that is consumed runs on to its next frame, and the
\* generation stream is finite: after some events it ends or it raises.
\* The step that ends the stream and the step that raises are enabled in the
\* same states and each puts an end to both, so fairness of the raising step
\* says no more than that the loop over the stream is left.
Progress ==
    \/ OcrStart
    \/ OcrDone
    \/ RunStart
    \/ StreamRaises
    \/ SmalltalkStart
    \/ SmalltalkRaises
    \/ Finish

FairRuns == SpecRuns /\ WF_vars(Progress)

(***************************************************************************)
(* Two requests served side by side.  Each call of generate_sse has its    *)
(* own locals (runs[r]); news_store is the one object of the module that   *)
(* both write to.  The generators run on one event loop and have no await  *)
(* between two yields, so the runs interleave yield by yield; a step here  *)
(* is the code of one run from one point of the loop to the next.          *)
(***************************************************************************)
MaxRunEvents == 2

RunIds == {1, 2}

\* what the two streams deliver
RunEvents ==
    {EventObject("RunContent", <<"J">> \o RawDelim \o RawArtA, <<>>, NoTool),
     EventObject("RunContent", RawDelim \o RawArtB, <<>>, NoTool),
     EventObject("ToolCallStarted", <<>>, <<>>, SearchTool)}

\* the locals of generate_sse when the loop over the stream begins; history
\* is the record of what the run has been through
FreshRun ==
    [pc |-> "stream", use_web_search |-> TRUE, routing_state |-> <<>>,
     routing_log |-> <<run_start>>, accumulated |-> <<>>, assistant_content_len |-> 0,
     streamed_news_keys |-> {}, reasoning_fragments |-> <<>>, pulled |-> 0,
     emitted |-> <<>>, sent |-> <<>>, history |-> <<>>]

\* the text of the run after the event, and what the increment check finds
BufferAfter(run, ev) == run.accumulated \o extract_stream_text(ev)

FoundBy(run, ev) ==
    LET assistant_content == extract_assistant_content_from_json(BufferAfter(run, ev)) IN
    IF /\ extract_stream_text(ev) # <<>>
       /\ ShouldCheck(run.use_web_search, assistant_content, run.assistant_content_len)
    THEN parse_news_articles_streaming(assistant_content)
    ELSE <<>>

\* one iteration of "for event in response" on the locals of a run; seen is
\* the set build_news_records_from_articles is handed as seen_keys
StepLocals(run, ev, seen, translated) ==
    LET update == build_routing_update(ev, run.routing_state)
        text == extract_stream_text(ev)
        assistant_content == extract_assistant_content_from_json(BufferAfter(run, ev))
        checked == /\ text # <<>>
                   /\ ShouldCheck(run.use_web_search, assistant_content,
                                  run.assistant_content_len)
        built == build_news_records_from_articles(FoundBy(run, ev), seen, translated)
    IN  [run EXCEPT
            !.routing_state = build_routing_state(ev, @),
            !.routing_log = IF update = None THEN @ ELSE update_routing_log(@, update).log,
            !.accumulated = BufferAfter(run, ev),
            !.assistant_content_len = IF checked THEN StrLen(assistant_content) ELSE @,
            !.streamed_news_keys = @ \cup (built.seen \ seen),
            !.reasoning_fragments =
                IF extract_reasoning_text(ev) # <<>>
                THEN Append(@, extract_reasoning_text(ev)) ELSE @,
            !.pulled = @ + 1,
            !.emitted =
                (IF update = None THEN <<>>
                 ELSE <<LogFrame("route-built"), LogFrame("dedup-check")>>
                      \o (IF update_routing_log(run.routing_log, update).changed
                          THEN <<LogFrame("push"), RoutingFrame(update)>> ELSE <<>>))
                \o EventNameFrames(ev) \o ReasoningFrames(ev) \o TraceFrames(ev)
                \o (IF text # <<>> THEN <<ChunkFrame(text)>> ELSE <<>>)
                \o (IF built.documents # <<>>
                    THEN <<DocumentsFrame(built.documents)>> ELSE <<>>),
            !.sent = @ \o DocIds(built.documents),
            !.history = Append(@, [step |-> "event", event |-> ev,
                                   translated |-> translated])]

\* the articles of the final pass of a run
FinalFoundBy(run) ==
    IF run.accumulated = <<>> \/ IsRaised(safe_parse_json(run.accumulated)) THEN <<>>
    ELSE FinalArticles(safe_parse_json(run.accumulated), run.use_web_search)

\* the end of the stream on the locals of a run: run-main done, and the
\* final artifact
EndLocals(run, seen, translated) ==
    LET merged == update_routing_log(run.routing_log, run_done)
        final_data == safe_parse_json(run.accumulated)
        summary == build_reasoning_summary(run.reasoning_fragments)
        built == build_news_records_from_articles(FinalFoundBy(run), seen, translated)
    IN  [run EXCEPT
            !.pc = "final",
            !.routing_log = merged.log,
            !.streamed_news_keys = @ \cup (built.seen \ seen),
            !.emitted =
                (IF merged.changed THEN <<RoutingFrame(run_done)>> ELSE <<>>)
                \o <<FinalFrame(
                        IF run.accumulated = <<>> THEN build_empty_response(<<"G">>)
                        ELSE IF IsRaised(final_data) THEN ErrorArtifact(final_data.message)
                        ELSE [final_data EXCEPT
                                 !.routing = merged.log,
                                 !.reasoning_summary = IF summary # <<>> THEN summary ELSE @,
                                 !.documents_append = @ \o built.documents])>>,
            !.sent = @ \o DocIds(built.documents),
            !.history = Append(@, [step |-> "end", event |-> None,
                                   translated |-> translated])]

\* the done frame of a run
FinishLocals(run) ==
    [run EXCEPT !.pc = "done", !.emitted = <<DoneFrame>>,
                !.history = Append(@, [step |-> "finish", event |-> None,
                                       translated |-> {}])]

\* a registry of fingerprints kept in one place for all runs
SeenBy_shared(r) == UNION {runs[q].streamed_news_keys : q \in RunIds}

\* streamed_news_keys is a local of the call: each run hands
\* build_news_records_from_articles its own set
SeenBy(r) == runs[r].streamed_news_keys

\* news_store after a pass of a run has stored its records
StoredBy(found, seen, translated) ==
    AddRecords(news_records,
               build_news_records_from_articles(found, seen, translated).documents)

TwoRunsInit ==
    /\ content = <<>>
    /\ grown = 0
    /\ call = "none"
    /\ article = None
    /\ articles = <<>>
    /\ routing_log = <<>>
    /\ routing_update = None
    /\ should_send = FALSE
    /\ calls = 0
    /\ pc = "idle"
    /\ image_inputs = FALSE
    /\ use_web_search = FALSE
    /\ routing_state = <<>>
    /\ event = None
    /\ pulled = 0
    /\ accumulated = <<>>
    /\ assistant_content_len = 0
    /\ streamed_news_keys = {}
    /\ reasoning_fragments = <<>>
    /\ emitted = <<>>
    /\ ocr_updates = <<>>
    /\ news_records = {}
    /\ sent_documents = <<>>
    /\ raised = FALSE
    /\ translate_calls = <<>>
    /\ runs = [r \in RunIds |-> FreshRun]
    /\ StoresIdle

OthersUnchanged ==
    UNCHANGED <<parseVars, logVars, pc, image_inputs, use_web_search, routing_state, event,
                pulled, accumulated, assistant_content_len, streamed_news_keys,
                reasoning_fragments, emitted, ocr_updates, sent_documents, raised,
                translate_calls, storeVars>>

\* run r handles the next event of its stream
RunEventOf(r, ev) ==
    /\ runs[r].pc = "stream"
    /\ runs[r].pulled < MaxRunEvents
    /\ \E translated \in SUBSET TitlesToTranslate(FoundBy(runs[r], ev), SeenBy(r)) :
          LET after == StepLocals(runs[r], ev, SeenBy(r), translated) IN
          /\ runs' = [runs EXCEPT ![r] = after]
          /\ news_records' = StoredBy(FoundBy(runs[r], ev), SeenBy(r), translated)
    /\ OthersUnchanged

\* the stream of run r ends
RunEndOf(r) ==
    /\ runs[r].pc = "stream"
    /\ \E translated \in SUBSET TitlesToTranslate(FinalFoundBy(runs[r]), SeenBy(r)) :
          LET after == EndLocals(runs[r], SeenBy(r), translated) IN
          /\ runs' = [runs EXCEPT ![r] = after]
          /\ news_records' = StoredBy(FinalFoundBy(runs[r]), SeenBy(r), translated)
    /\ OthersUnchanged

\* run r yields its done frame
RunFinishOf(r) ==
    /\ runs[r].pc = "final"
    /\ runs' = [runs EXCEPT ![r] = FinishLocals(runs[r])]
    /\ UNCHANGED news_records
    /\ OthersUnchanged

TwoRunsNext ==
    \E r \in RunIds :
        \/ \E ev \in RunEvents : RunEventOf(r, ev)
        \/ RunEndOf(r)
        \/ RunFinishOf(r)

SpecTwoRuns == TwoRunsInit /\ [][TwoRunsNext]_vars

(***************************************************************************)
(* The news store.  news_records is the table of the database file; every  *)
(* NewsStore object constructed on the path works on that table.  A row is *)
(* modelled by its columns id, name, content, tags and user_id.            *)
(***************************************************************************)
MaxInstances == 2

\* None where a user id is expected, and the NULL of the column user_id
NoUser == <<"None">>

UserA == <<"w">>
UserAPadded == <<"w", "sp">>
UserB == <<"t">>

\* the user ids the calls are made with: none, a blank string, and the ids
\* of two users, one of them also with a space after it
UserIds == {NoUser, <<"sp">>, UserA, UserAPadded, UserB}

\* bool(value) of an optional string
Truthy(value) == value # NoUser /\ value # <<>>

\* NewsStore._normalize_user_id
_normalize_user_id(user_id) ==
    IF user_id = NoUser THEN NoUser
    ELSE IF Strip(user_id) # <<>> THEN Strip(user_id) ELSE NoUser

\* NewsStore._is_legacy_user_id; in SQL: user_id IS NULL OR TRIM(user_id) = ''
_is_legacy_user_id(user_id) == user_id = NoUser \/ Strip(user_id) = <<>>

\* json.dumps of a list of strings, and json.loads of the text
JsonDumps(tags) == <<"json", tags>>

JsonLoads_tags(text) == text[2]

\* the tags of a row as the readers return them
RowTags(row) == IF row.tags # <<>> THEN JsonLoads_tags(row.tags) ELSE <<>>

\* the records add_record is called with; the last has no id
NewsInputs ==
    {[id |-> "r1", name |-> "n1", content |-> "c1", tags |-> <<>>, user_id |-> NoUser],
     [id |-> "r1", name |-> "n2", content |-> "c2", tags |-> <<>>, user_id |-> NoUser],
     [id |-> "r2", name |-> "n1", content |-> "c1", tags |-> <<"x">>, user_id |-> UserB],
     [id |-> "", name |-> "n1", content |-> "c1", tags |-> <<>>, user_id |-> NoUser]}

RecordIds == {"r1", "r2"}

\* conn.executescript(schema_sql): schema.sql creates the table news_records
\* with the primary key id if the database has none, and leaves the rows of
\* a table that exists
executescript_schema(table) == table

\* the row add_record writes
NewsRow(record, user_id) ==
    [id |-> record.id, name |-> record.name, content |-> record.content,
     tags |-> JsonDumps(record.tags),
     user_id |-> _normalize_user_id(IF Truthy(user_id) THEN user_id ELSE record.user_id)]

\* dict(row) with the tags decoded
RowDict(row) == [row EXCEPT !.tags = RowTags(row)]

\* the rows a statement of user normalized_user_id reaches: the user's own
\* and the legacy rows
Reaches(row, normalized_user_id) ==
    row.user_id = normalized_user_id \/ _is_legacy_user_id(row.user_id)

\* the orders in which a set of rows can come back (created_at, which the
\* SELECT orders by, is not among the columns modelled)
Orders(rows) ==
    {seq \in [1..Cardinality(rows) -> rows] :
        \A i, j \in 1..Cardinality(rows) : i # j => seq[i] # seq[j]}

Invoke(op, store, record_id, user_id, arg) ==
    [op |-> op, store |-> store, record_id |-> record_id, user_id |-> user_id, arg |-> arg]

\* a NewsStore whose constructor builds the table anew
NewsStore_init_drops ==
    /\ Len(instances) < MaxInstances
    /\ news_records' = {}
    /\ instances' = Append(instances, {row.id : row \in news_records'})
    /\ invoked' = Invoke("NewsStore", Len(instances) + 1, "", NoUser, None)
    /\ returned' = None
    /\ UNCHANGED <<tag_store, active_sessions, now>>

\* NewsStore(db_path): __init__ and _init_db on the path of the database
NewsStore_init ==
    /\ Len(instances) < MaxInstances
    /\ news_records' = executescript_schema(news_records)
    /\ instances' = Append(instances, {row.id : row \in news_records'})
    /\ invoked' = Invoke("NewsStore", Len(instances) + 1, "", NoUser, None)
    /\ returned' = None
    /\ UNCHANGED <<tag_store, active_sessions, now>>

\* store.add_record(record, user_id)
add_record(store, record, user_id) ==
    /\ invoked' = Invoke("add_record", store, record.id, user_id, record)
    /\ IF record.id = ""
       THEN /\ returned' = FALSE
            /\ UNCHANGED news_records
       ELSE /\ news_records' =
                  {row \in news_records : row.id # record.id}
                  \cup {NewsRow(record, user_id)}
            /\ returned' = TRUE
    /\ UNCHANGED <<tag_store, active_sessions, now, instances>>

\* store.get_all_records(user_id)
get_all_records(store, user_id) ==
    LET normalized_user_id == _normalize_user_id(user_id)
        migrated == {IF _is_legacy_user_id(row.user_id)
                     THEN [row EXCEPT !.user_id = normalized_user_id] ELSE row :
                        row \in news_records}
        rows == IF normalized_user_id # NoUser
                THEN {row \in migrated : row.user_id = normalized_user_id}
                ELSE news_records
    IN  /\ invoked' = Invoke("get_all_records", store, "", user_id, None)
        /\ news_records' = IF normalized_user_id # NoUser THEN migrated ELSE news_records
        /\ \E seq \in Orders(rows) :
              returned' = [i \in 1..Len(seq) |-> RowDict(seq[i])]
        /\ UNCHANGED <<tag_store, active_sessions, now, instances>>

\* store.get_record_by_id(record_id, user_id)
get_record_by_id(store, record_id, user_id) ==
    LET normalized_user_id == _normalize_user_id(user_id)
        found == {row \in news_records :
                     /\ row.id = record_id
                     /\ normalized_user_id # NoUser => Reaches(row, normalized_user_id)}
    IN  /\ invoked' = Invoke("get_record_by_id", store, record_id, user_id, None)
        /\ IF found = {}
           THEN /\ returned' = None
                /\ UNCHANGED news_records
           ELSE LET row == CHOOSE row \in found : TRUE
                    claimed == normalized_user_id # NoUser /\ _is_legacy_user_id(row.user_id)
                    owned == IF claimed THEN [row EXCEPT !.user_id = normalized_user_id]
                             ELSE row
                IN  /\ news_records' = (news_records \ {row}) \cup {owned}
                    /\ returned' = RowDict(owned)
        /\ UNCHANGED <<tag_store, active_sessions, now, instances>>

\* update_tags whose UPDATE names the record only
update_tags_any_user(store, record_id, tags, user_id) ==
    LET hit == {row \in news_records : row.id = record_id} IN
    /\ invoked' = Invoke("update_tags", store, record_id, user_id, tags)
    /\ news_records' =
          {IF row \in hit THEN [row EXCEPT !.tags = JsonDumps(tags)] ELSE row :
              row \in news_records}
    /\ returned' = (hit # {})
    /\ UNCHANGED <<tag_store, active_sessions, now, instances>>

\* store.update_tags(record_id, tags, user_id)
update_tags(store, record_id, tags, user_id) ==
    LET normalized_user_id == _normalize_user_id(user_id)
        hit == {row \in news_records :
                   /\ row.id = record_id
                   /\ normalized_user_id # NoUser => Reaches(row, normalized_user_id)}
    IN  /\ invoked' = Invoke("update_tags", store, record_id, user_id, tags)
        /\ news_records' =
              {IF row \in hit
               THEN [row EXCEPT
                        !.tags = JsonDumps(tags),
                        !.user_id = IF normalized_user_id # NoUser /\ _is_legacy_user_id(@)
                                    THEN normalized_user_id ELSE @]
               ELSE row : row \in news_records}
        /\ returned' = (hit # {})
        /\ UNCHANGED <<tag_store, active_sessions, now, instances>>

\* store.delete_record(record_id, user_id)
delete_record(store, record_id, user_id) ==
    LET normalized_user_id == _normalize_user_id(user_id)
        hit == {row \in news_records :
                   /\ row.id = record_id
                   /\ normalized_user_id # NoUser => Reaches(row, normalized_user_id)}
    IN  /\ invoked' = Invoke("delete_record", store, record_id, user_id, None)
        /\ news_records' = news_records \ hit
        /\ returned' = (hit # {})
        /\ UNCHANGED <<tag_store, active_sessions, now, instances>>

\* store.clear_all_records(user_id)
clear_all_records(store, user_id) ==
    LET normalized_user_id == _normalize_user_id(user_id) IN
    /\ invoked' = Invoke("clear_all_records", store, "", user_id, None)
    /\ news_records' =
          IF normalized_user_id # NoUser
          THEN {row \in news_records : ~Reaches(row, normalized_user_id)}
          ELSE {}
    /\ returned' = TRUE
    /\ UNCHANGED <<tag_store, active_sessions, now, instances>>

StoreFrame == UNCHANGED <<parseVars, logVars, pc, image_inputs, use_web_search,
                          routing_state, event, pulled, accumulated,
                          assistant_content_len, streamed_news_keys, reasoning_fragments,
                          emitted, ocr_updates, sent_documents, raised, translate_calls,
                          runs>>

\* calls on the NewsStore of the module and on the one constructed last
NewsNext ==
    /\ StoreFrame
    /\ \/ NewsStore_init
       \/ \E store \in {1, Len(instances)}, user_id \in UserIds :
             \/ \E record \in NewsInputs : add_record(store, record, user_id)
             \/ get_all_records(store, user_id)
             \/ clear_all_records(store, user_id)
             \/ \E record_id \in RecordIds :
                   \/ get_record_by_id(store, record_id, user_id)
                   \/ update_tags(store, record_id, <<"y">>, user_id)
                   \/ delete_record(store, record_id, user_id)

SpecNews == ParseInit /\ [][NewsNext]_vars

(***************************************************************************)
(* The tag store: tag_store is the dict _tag_store["users"], from the key  *)
(* of a user to the bucket of the user, a dict docs from tag keys to lists *)
(* of tags and a list custom_tags.                                         *)
(***************************************************************************)
LEGACY_USER_KEY == <<"L">>

\* the user ids the tag functions are called with
TagUserIds == UserIds \cup {LEGACY_USER_KEY}

TagKeys == {"k1", "k2"}

\* the lists set_doc_tags is called with: distinct tags, and a tag repeated
TagLists == {<<"x">>, <<"y", "x", "y">>}

\* d[key] = value, and del d[key], on a dict
DictSet(d, key, value) ==
    [k \in DOMAIN d \cup {key} |-> IF k = key THEN value ELSE d[k]]

DictDel(d, key) == [k \in DOMAIN d \ {key} |-> d[k]]

\* _dedupe_list: the first occurrence of every value, in order
RECURSIVE _dedupe_list(_)
_dedupe_list(values) ==
    IF values = <<>> THEN <<>>
    ELSE LET front == _dedupe_list(SubSeq(values, 1, Len(values) - 1))
             value == values[Len(values)]
         IN  IF value \in SeqRange(front) THEN front ELSE Append(front, value)

\* _normalize_user_key
_normalize_user_key(user_id) ==
    IF user_id = NoUser THEN LEGACY_USER_KEY
    ELSE IF Strip(user_id) # <<>> THEN Strip(user_id) ELSE LEGACY_USER_KEY

\* _new_bucket
_new_bucket == [docs |-> <<>>, custom_tags |-> <<>>]

\* _get_user_bucket(user_id, create): the bucket it returns (the shape of
\* what the store holds is never other than the functions of this file
\* make it, so the repairs do nothing)
_get_user_bucket(users, user_id) ==
    IF _normalize_user_key(user_id) \in DOMAIN users
    THEN users[_normalize_user_key(user_id)] ELSE _new_bucket

\* the users after _get_user_bucket(user_id, create=True)
BucketCreated(users, user_id) ==
    IF _normalize_user_key(user_id) \in DOMAIN users THEN users
    ELSE DictSet(users, _normalize_user_key(user_id), _new_bucket)

\* docs.get(tag_key, [])
DocsGet(docs, tag_key) == IF tag_key \in DOMAIN docs THEN docs[tag_key] ELSE <<>>

\* isinstance(tags, list)
IsList(value) == DOMAIN value = 1..Len(value)

\* set_doc_tags that appends to the list stored
set_doc_tags_appends(tag_key, tags, user_id) ==
    LET users == BucketCreated(tag_store, user_id)
        user_key == _normalize_user_key(user_id)
        docs == _get_user_bucket(users, user_id).docs
    IN  /\ invoked' = Invoke("set_doc_tags", 0, tag_key, user_id, tags)
        /\ tag_store' =
              DictSet(users, user_key,
                      [users[user_key] EXCEPT
                          !.docs = DictSet(docs, tag_key,
                                           _dedupe_list(DocsGet(docs, tag_key) \o tags))])
        /\ returned' = None
        /\ UNCHANGED <<news_records, active_sessions, now, instances>>

\* set_doc_tags(tag_key, tags, user_id)
set_doc_tags(tag_key, tags, user_id) ==
    LET users == BucketCreated(tag_store, user_id)
        user_key == _normalize_user_key(user_id)
        docs == _get_user_bucket(users, user_id).docs
    IN  /\ invoked' = Invoke("set_doc_tags", 0, tag_key, user_id, tags)
        /\ tag_store' =
              DictSet(users, user_key,
                      [users[user_key] EXCEPT
                          !.docs = DictSet(docs, tag_key, _dedupe_list(tags))])
        /\ returned' = None
        /\ UNCHANGED <<news_records, active_sessions, now, instances>>

\* get_doc_tags(tag_key, user_id)
get_doc_tags(tag_key, user_id) ==
    LET user_key == _normalize_user_key(user_id)
        users == BucketCreated(tag_store, user_key)
        tags == DocsGet(_get_user_bucket(users, user_key).docs, tag_key)
        legacy_tags == DocsGet(_get_user_bucket(users, LEGACY_USER_KEY).docs, tag_key)
    IN  /\ invoked' = Invoke("get_doc_tags", 0, tag_key, user_id, None)
        /\ IF IsList(tags)
           THEN /\ returned' = tags
                /\ tag_store' = users
           ELSE IF user_key # LEGACY_USER_KEY /\ IsList(legacy_tags)
           THEN /\ tag_store' =
                      DictSet(users, user_key,
                              [users[user_key] EXCEPT
                                  !.docs = DictSet(@, tag_key, _dedupe_list(legacy_tags))])
                /\ returned' = _dedupe_list(legacy_tags)
           ELSE /\ returned' = <<>>
                /\ tag_store' = users
        /\ UNCHANGED <<news_records, active_sessions, now, instances>>

\* what clear_all_tags leaves of the users
Cleared(users, user_id) ==
    IF user_id = NoUser THEN <<>>
    ELSE DictDel(users, _normalize_user_key(user_id))

\* clear_all_tags(user_id)
clear_all_tags(user_id) ==
    /\ invoked' = Invoke("clear_all_tags", 0, "", user_id, None)
    /\ tag_store' = Cleared(tag_store, user_id)
    /\ returned' = None
    /\ UNCHANGED <<news_records, active_sessions, now, instances>>

TagsNext ==
    /\ StoreFrame
    /\ \E user_id \in TagUserIds :
          \/ clear_all_tags(user_id)
          \/ \E tag_key \in TagKeys :
                \/ get_doc_tags(tag_key, user_id)
                \/ \E tags \in TagLists : set_doc_tags(tag_key, tags, user_id)

SpecTags == ParseInit /\ [][TagsNext]_vars

(***************************************************************************)
(* The login interface.  Time is counted in hours; a token is one of the   *)
(* strings create_session_token can draw, and a token drawn is one that no *)
(* session holds.                                                          *)
(***************************************************************************)
MaxTicks == 3

MaxSessions == 2

SESSION_TIMEOUT == 24

\* the hours that pass between two readings of the clock
TickHours == 12

Tokens == {<<"token", i>> : i \in 1..MaxSessions}

\* os.getenv("APP_USERNAME", "CathaySEA") and os.getenv("APP_PASSWORD", ...)
valid_username == "CathaySEA"

valid_password == "CathaySEA"

Credentials == {"CathaySEA", "guess"}

\* cleanup_expired_sessions: the sessions that are left
cleanup_expired_sessions(sessions, time) ==
    [token \in {t \in DOMAIN sessions : ~(time > sessions[t])} |-> sessions[token]]

\* verify_session: what it returns, and the sessions it leaves
verify_session(sessions, token, time) ==
    IF token \notin DOMAIN sessions THEN [valid |-> FALSE, sessions |-> sessions]
    ELSE IF time > sessions[token]
    THEN [valid |-> FALSE, sessions |-> DictDel(sessions, token)]
    ELSE [valid |-> TRUE, sessions |-> sessions]

LoginResponse(success, token, error) ==
    [success |-> success, token |-> token, error |-> error]

\* a login that leaves the tags in place
login_keeps_tags(username, password) ==
    LET sessions == cleanup_expired_sessions(active_sessions, now) IN
    /\ invoked' = Invoke("login", 0, "", NoUser, <<username, password>>)
    /\ instances' = instances
    /\ now' = now
    /\ IF username = valid_username /\ password = valid_password
       THEN \E token \in Tokens \ DOMAIN active_sessions :
               /\ news_records' = {}
               /\ tag_store' = tag_store
               /\ active_sessions' = DictSet(sessions, token, now + SESSION_TIMEOUT)
               /\ returned' = LoginResponse(TRUE, token, "")
       ELSE /\ active_sessions' = sessions
            /\ returned' = LoginResponse(FALSE, <<>>, "credentials")
            /\ UNCHANGED <<news_records, tag_store>>

\* POST /api/auth/login
login(username, password) ==
    LET sessions == cleanup_expired_sessions(active_sessions, now) IN
    /\ invoked' = Invoke("login", 0, "", NoUser, <<username, password>>)
    /\ instances' = instances
    /\ now' = now
    /\ IF username = valid_username /\ password = valid_password
       THEN \E token \in Tokens \ DOMAIN active_sessions :
               /\ news_records' = {}
               /\ tag_store' = Cleared(tag_store, NoUser)
               /\ active_sessions' = DictSet(sessions, token, now + SESSION_TIMEOUT)
               /\ returned' = LoginResponse(TRUE, token, "")
       ELSE /\ active_sessions' = sessions
            /\ returned' = LoginResponse(FALSE, <<>>, "credentials")
            /\ UNCHANGED <<news_records, tag_store>>

\* POST /api/auth/verify
verify_token(token) ==
    LET sessions == cleanup_expired_sessions(active_sessions, now) IN
    /\ invoked' = Invoke("verify_token", 0, "", NoUser, token)
    /\ active_sessions' = verify_session(sessions, token, now).sessions
    /\ returned' = verify_session(sessions, token, now).valid
    /\ UNCHANGED <<news_records, tag_store, now, instances>>

\* time passes
Tick ==
    /\ now < MaxTicks * TickHours
    /\ now' = now + TickHours
    /\ invoked' = None
    /\ returned' = None
    /\ UNCHANGED <<news_records, tag_store, active_sessions, instances>>

\* logins and verifications, between the requests that fill the stores
LoginNext ==
    /\ StoreFrame
    /\ \/ \E username \in Credentials, password \in Credentials : login(username, password)
       \/ \E token \in Tokens : verify_token(token)
       \/ Tick
       \/ \E record \in NewsInputs : add_record(1, record, NoUser)
       \/ \E user_id \in {NoUser, UserA} : set_doc_tags("k1", <<"x">>, user_id)

SpecLogin == ParseInit /\ [][LoginNext]_vars

(***************************************************************************)
(* Properties of the segmenter.                                            *)
(***************************************************************************)
Sections == SplitSections(content)

\* the sections a streaming call may trust: all but the last
ClosedSections == SubSeq(Sections, 1, Len(Sections) - 1)

LastSection == Sections[Len(Sections)]

\* C1: a streaming call never returns a record built from the last segment:
\* every returned record is the record of a segment before the last one, and
\* no more records are returned than those segments yield.
C1_NoPrematureEmission ==
    call = "streaming" =>
        /\ \A j \in 1..Len(articles) :
              \E i \in 1..Len(ClosedSections) :
                  parse_news_section(ClosedSections[i]) = articles[j]
        /\ Len(articles) <=
              Cardinality({i \in 1..Len(ClosedSections) :
                              parse_news_section(ClosedSections[i]) # None})
        /\ (\A i \in 1..Len(ClosedSections) :
                  Strip(SplitLines(Strip(ClosedSections[i]))[1])
                      # Strip(SplitLines(Strip(LastSection))[1]))
              => \A j \in 1..Len(articles) :
                    articles[j].title # Strip(SplitLines(Strip(LastSection))[1])

\* a streaming call returned records while the last segment is itself a
\* well-formed article that is not among them
C1_Witness ==
    /\ call = "streaming"
    /\ Len(articles) >= 1
    /\ parse_news_section(LastSection) # None
    /\ \A j \in 1..Len(articles) : articles[j] # parse_news_section(LastSection)

\* C2: a streaming call returns exactly the records the batch logic yields
\* for all split segments except the final one.
C2_StreamingEqualsBatchOfClosed ==
    call = "streaming" => articles = ParseSections(ClosedSections)

\* C3: the buffer "### " + valid article + delimiter + incomplete heading
\* yields, in streaming mode, exactly one record whose title is the first
\* heading's text.
C3_ScenarioOneRecord ==
    (call = "streaming" /\ content = HeadingMarker \o ArtA \o Delim \o <<"t">>)
        => (Len(articles) = 1 /\ articles[1].title = <<"w">>)

\* the acceptance rules of a segment, stated on the title (first line of the
\* trimmed segment) and the body (the trimmed remaining lines)
SectionTitle(section) == Strip(SplitLines(Strip(section))[1])

SectionBody(section) == Strip(JoinLines(Tail(SplitLines(Strip(section)))))

Acceptable(section) ==
    /\ ~HasSystemKeyword(SectionTitle(section))
    /\ 5 <= StrLen(SectionTitle(section))
    /\ StrLen(SectionTitle(section)) <= 200
    /\ StrLen(SectionBody(section)) >= 30
    /\ (SearchDate(SectionBody(section)) # "" \/ SearchUrl(SectionBody(section)) # <<>>)

\* C4: parse_news_section returns a record iff the title has no system
\* keyword, 5 <= len(title) <= 200, len(body) >= 30 and the body holds a
\* publish date or a URL; the record carries the first date and the first URL
\* of the body, either of which may be empty.
C4_SectionAcceptedIff ==
    call = "section" =>
        /\ (article # None) <=> Acceptable(content)
        /\ article # None =>
              /\ article.title = SectionTitle(content)
              /\ article.content = SectionBody(content)
              /\ article.publish_date = SearchDate(SectionBody(content))
              /\ article.url = SearchUrl(SectionBody(content))

\* a segment was accepted on its URL alone, with no publish date
C4_Witness ==
    /\ call = "section"
    /\ article # None
    /\ article.publish_date = ""
    /\ article.url # <<>>

(***************************************************************************)
(* Properties of the status log merger.                                    *)
(***************************************************************************)
\* C5: applying the same update a second time returns False and leaves the
\* log as the first application left it.
C5_IdempotentMerge ==
    [][(calls' = calls + 1 /\ routing_update' = routing_update)
          => (should_send' = FALSE /\ routing_log' = routing_log)]_vars

\* an update was applied to a log of several entries and changed nothing
C5_Witness ==
    /\ routing_update # None
    /\ calls >= 2
    /\ should_send = FALSE
    /\ Len(routing_log) >= 2
    /\ \E i \in 1..Len(routing_log) :
          routing_log[i].id = routing_update.id /\ routing_log[i] # routing_update

\* the old entry overlaid by the non-empty fields of the update only
OverlayNonEmpty(old, new) ==
    [id     |-> IF new.id \notin {Absent, ""} THEN new.id ELSE old.id,
     label  |-> IF new.label \notin {Absent, ""} THEN new.label ELSE old.label,
     status |-> IF new.status \notin {Absent, ""} THEN new.status ELSE old.status,
     eta    |-> IF new.eta \notin {Absent, ""} THEN new.eta ELSE old.eta,
     stage  |-> IF new.stage \notin {Absent, ""} THEN new.stage ELSE old.stage]

\* the old entry overlaid by every field the update carries
OverlayPresent(old, new) ==
    [id     |-> IF new.id = Absent THEN old.id ELSE new.id,
     label  |-> IF new.label = Absent THEN old.label ELSE new.label,
     status |-> IF new.status = Absent THEN old.status ELSE new.status,
     eta    |-> IF new.eta = Absent THEN old.eta ELSE new.eta,
     stage  |-> IF new.stage = Absent THEN old.stage ELSE new.stage]

\* C6 as stated: an update merged into the entry with its id leaves the old
\* entry overlaid by the update's non-empty fields only (an empty eta does
\* not overwrite).
C6_NonEmptyOverlay ==
    [][\A i \in 1..Len(routing_log) :
          routing_log[i].id = routing_update'.id
              => routing_log'[i] = OverlayNonEmpty(routing_log[i], routing_update')]_vars

\* C6 amended: an update merged into the entry with its id leaves the old
\* entry overlaid by every field the update carries, empty values included;
\* only the fields the update lacks keep the old value.
C6_PresentOverlay ==
    [][\A i \in 1..Len(routing_log) :
          routing_log[i].id = routing_update'.id
              => routing_log'[i] = OverlayPresent(routing_log[i], routing_update')]_vars

\* an update with an empty eta and no stage was merged: the entry now has
\* the empty eta and still has its stage
C6_Witness ==
    /\ routing_update # None
    /\ should_send
    /\ routing_update.eta = ""
    /\ routing_update.stage = Absent
    /\ \E i \in 1..Len(routing_log) :
          /\ routing_log[i].id = routing_update.id
          /\ routing_log[i].eta = ""
          /\ routing_log[i].stage = "search"

C7_DistinctIds ==
    \A i, j \in 1..Len(routing_log) :
        routing_log[i].id = routing_log[j].id => i = j

C7_Step ==
    /\ Len(routing_log') >= Len(routing_log)
    /\ \A i \in 1..Len(routing_log) : routing_log'[i].id = routing_log[i].id

\* C7: the log never gets shorter, no two entries share an id, no entry is
\* deleted, and every entry keeps the position its id got when first seen.
C7_AppendOrdered == [](C7_DistinctIds) /\ [][C7_Step]_vars

\* an update changed the first entry of a log of several entries in place
C7_Witness ==
    /\ routing_update # None
    /\ should_send
    /\ Len(routing_log) >= 3
    /\ routing_log[1].id = routing_update.id
    /\ routing_log[1] # routing_update

(***************************************************************************)
(* Properties of the status frames of a run.                               *)
(***************************************************************************)
RoutingUpdatesOf(frames) ==
    {frames[i].update : i \in {j \in 1..Len(frames) : frames[j].kind = "routing_update"}}

\* the step yields a routing_update frame only for an update that changed the
\* log: no entry of the log before the step already equals its merge with
\* the update, and the log after the step holds the update merged
C8_Step ==
    \A update \in RoutingUpdatesOf(emitted') :
        /\ routing_log' # routing_log
        /\ \A i \in 1..Len(routing_log) :
              routing_log[i].id = update.id
                  => MergeDicts(routing_log[i], update) # routing_log[i]
        /\ \E i \in 1..Len(routing_log') :
              /\ routing_log'[i].id = update.id
              /\ MergeDicts(routing_log'[i], update) = routing_log'[i]

EntriesWithId(log, id) == {i \in 1..Len(log) : log[i].id = id}

\* C9: when a tool-call-completed event with id t1 is handled after the
\* tool-call-started event with that id, the log holds exactly one entry with
\* id t1, and its status is done.
C9_StartedThenCompleted ==
    [][(/\ pulled' = pulled + 1
        /\ event'.event \in ToolCompletedEvents
        /\ event'.tool.tool_call_id = "t1"
        /\ \E i \in EntriesWithId(routing_log, "t1") : routing_log[i].status = "running")
          => /\ Cardinality(EntriesWithId(routing_log', "t1")) = 1
             /\ \A i \in EntriesWithId(routing_log', "t1") : routing_log'[i].status = "done"]_vars

\* the completed event of t1 was handled after its started event: the one
\* entry of t1 is done and still has the stage the started event gave it
C9_Witness ==
    /\ event # None
    /\ event.event \in ToolCompletedEvents
    /\ event.tool.tool_call_id = "t1"
    /\ should_send
    /\ \E i \in EntriesWithId(routing_log, "t1") :
          /\ routing_log[i].status = "done"
          /\ routing_log[i].stage = "search"
          /\ routing_log[i].eta = ""

\* C10: build_routing_update maps each of TeamRunContentCompleted,
\* RunContentCompleted, TeamRunCompleted and RunCompleted to an entry with id
\* content-processing and status running, and no entry with id
\* content-processing is ever done in the log of a run.
C10_ProcessingStaysRunning ==
    /\ \A name \in {"TeamRunContentCompleted", "RunContentCompleted",
                    "TeamRunCompleted", "RunCompleted"} :
          LET update == build_routing_update(EventObject(name, <<>>, <<>>, NoTool),
                                             routing_state)
          IN  /\ update # None
              /\ update.id = "content-processing"
              /\ update.status = "running"
    /\ \A i \in EntriesWithId(routing_log, "content-processing") :
          routing_log[i].status = "running"

\* a run has ended, its final frames sent, with content-processing in the
\* log and still running
C10_Witness ==
    /\ pc = "done"
    /\ \E i \in EntriesWithId(routing_log, "content-processing") :
          routing_log[i].status = "running"
    /\ \E i \in EntriesWithId(routing_log, "run-main") : routing_log[i].status = "done"

(***************************************************************************)
(* Properties of the dedup registry.                                       *)
(***************************************************************************)
\* the documents of the documents_append frame among the frames, if any
DocsOf(frames) ==
    IF \E i \in 1..Len(frames) : frames[i].kind = "documents_append"
    THEN frames[CHOOSE i \in 1..Len(frames) : frames[i].kind = "documents_append"].documents
    ELSE <<>>

\* the positions a single pass keeps: the key is not empty, not in the seen
\* set, and not the key of an earlier position
KeptIndices(input, seen) ==
    {i \in 1..Len(input) :
        /\ make_news_key(input[i]) # <<>>
        /\ make_news_key(input[i]) \notin seen
        /\ \A j \in 1..(i - 1) : make_news_key(input[j]) # make_news_key(input[i])}

\* the k-th kept position
NthKept(input, seen, k) ==
    CHOOSE i \in KeptIndices(input, seen) :
        Cardinality({j \in KeptIndices(input, seen) : j <= i}) = k

\* the document is the record of the candidate
DocumentOf(doc, art) ==
    /\ doc.id = make_news_doc_id(make_news_key(art))
    /\ doc.name \in {art.title, <<"zh:">> \o art.title}
    /\ doc.publish_date = art.publish_date
    /\ doc.url = art.url

C11_Step(input) ==
    /\ Len(DocsOf(emitted')) = Cardinality(KeptIndices(input, streamed_news_keys))
    /\ \A k \in 1..Len(DocsOf(emitted')) :
          DocumentOf(DocsOf(emitted')[k], input[NthKept(input, streamed_news_keys, k)])
    /\ streamed_news_keys' =
          streamed_news_keys
              \cup {make_news_key(input[i]) : i \in KeptIndices(input, streamed_news_keys)}

\* C11: a call keeps a record iff its key is not empty and not in the seen
\* set at that moment (the keys kept earlier in the same pass included), adds
\* the kept keys to the seen set, and returns the kept records in input order.
C11_SinglePassFirstSeen ==
    [][(call = "none" /\ call' \in {"dedup", "dedup-twice"})
          => C11_Step(IF call' = "dedup" THEN articles ELSE articles \o articles)]_vars

\* of three candidates the second repeats the key of the first under another
\* spelling of the title: the first and the third were returned, in that order
C11_Witness ==
    /\ call = "dedup"
    /\ Len(articles) = 3
    /\ articles[2].title # articles[1].title
    /\ make_news_key(articles[2]) = make_news_key(articles[1])
    /\ Len(DocsOf(emitted)) = 2
    /\ DocumentOf(DocsOf(emitted)[1], articles[1])
    /\ DocumentOf(DocsOf(emitted)[2], articles[3])

\* C12: against an empty seen set, the list concatenated with itself gives
\* the same fingerprints in the same order, and the same seen set, as the
\* list itself.
C12_DedupStability ==
    [][(call = "none" /\ call' = "dedup-twice" /\ streamed_news_keys = {})
          => /\ DocIds(DocsOf(emitted')) =
                   DocIds(build_news_records_from_articles(articles, {}, {}).documents)
             /\ streamed_news_keys' =
                   build_news_records_from_articles(articles, {}, {}).seen]_vars

\* a doubled list of two distinct candidates was deduplicated against an
\* empty seen set: two documents, and they are all the seen set holds
C12_Witness ==
    /\ call = "dedup-twice"
    /\ Len(articles) >= 2
    /\ Len(DocsOf(emitted)) = 2
    /\ {make_news_doc_id(key) : key \in streamed_news_keys} = SeqRange(DocIds(DocsOf(emitted)))

BlankTitle(art) == Strip(art.title) = <<>>

\* C13: a candidate with an empty or blank title has the empty key; no call
\* returns, persists or emits a record for it, and the seen set never holds
\* the empty key or a key built from an empty title.
C13_BlankTitleNeverSurvives ==
    [][(call = "none" /\ call' \in {"dedup", "dedup-twice"})
          => /\ \A i \in 1..Len(articles) :
                   BlankTitle(articles[i]) => make_news_key(articles[i]) = <<>>
             /\ \A key \in streamed_news_keys' : key # <<>> /\ Head(key) # "|"
             /\ Len(DocsOf(emitted')) <=
                   Cardinality({i \in 1..Len(articles) : ~BlankTitle(articles[i])})
             /\ \A doc \in SeqRange(DocsOf(emitted')) \cup news_records' :
                   /\ doc.id # make_news_doc_id(<<>>)
                   /\ Strip(doc.name) # <<>>
                   /\ doc.name \notin {<<"zh:">>, <<"zh:", "sp">>}]_vars

\* a list holding a blank-title candidate was deduplicated and other
\* candidates of the list were returned
C13_Witness ==
    /\ call = "dedup"
    /\ \E i \in 1..Len(articles) : BlankTitle(articles[i])
    /\ \E i \in 1..Len(articles) : articles[i].title = <<"sp">>
    /\ DocsOf(emitted) # <<>>

(***************************************************************************)
(* Properties of the documents sent in a run.                              *)
(***************************************************************************)
\* C14: within a run no fingerprint is sent twice: over the documents_append
\* frames of the stream and the documents_append of the final artifact, each
\* document id (the digest of the fingerprint) appears at most once.
C14_NoFingerprintTwice ==
    \A i, j \in 1..Len(sent_documents) :
        sent_documents[i] = sent_documents[j] => i = j

\* an increment closed a second article: the segmenter returned the first
\* and the second, and only the second was sent, the first having been sent
\* by an earlier increment
C14_Witness ==
    /\ pc = "stream"
    /\ call = "streaming"
    /\ Len(articles) = 2
    /\ Len(DocsOf(emitted)) = 1
    /\ Len(sent_documents) = 2
    /\ sent_documents[1] = make_news_doc_id(make_news_key(articles[1]))
    /\ sent_documents[2] = make_news_doc_id(make_news_key(articles[2]))

\* the artifact of the final frame among the frames (None: no final frame)
FinalData(frames) ==
    IF \E i \in 1..Len(frames) : frames[i].kind = "final"
    THEN frames[CHOOSE i \in 1..Len(frames) : frames[i].kind = "final"].data
    ELSE None

\* the run has just sent its final artifact, parsed from the buffer
ParsedFinal ==
    /\ pc = "final"
    /\ use_web_search
    /\ FinalData(emitted) # None
    /\ FinalData(emitted).parsed

\* C15: when a web-search run reaches the end of the stream and its buffer
\* parses as the envelope, every article the batch segmenter accepts in the
\* final assistant.content has been sent, in a documents_append frame of the
\* stream or in the documents_append of the final artifact.
C15_EveryArticleSent ==
    ParsedFinal =>
        \A i \in 1..Len(parse_news_articles(FinalData(emitted).assistant_content)) :
            make_news_doc_id(make_news_key(
                parse_news_articles(FinalData(emitted).assistant_content)[i]))
                \in SeqRange(sent_documents)

\* the final content holds two articles; streaming had sent the first and
\* withheld the last, which the final artifact carries
C15_Witness ==
    /\ ParsedFinal
    /\ Len(parse_news_articles(FinalData(emitted).assistant_content)) = 2
    /\ Len(FinalData(emitted).documents_append) = 1
    /\ FinalData(emitted).documents_append[1].id =
          make_news_doc_id(make_news_key(
              parse_news_articles(FinalData(emitted).assistant_content)[2]))
    /\ Len(sent_documents) = 2

(***************************************************************************)
(* Properties of the partial-field reader.                                 *)
(***************************************************************************)
IsPrefix(s, t) == Len(s) <= Len(t) /\ SubSeq(t, 1, Len(s)) = s

\* the string body ends right after a backslash, or after a \u that has
\* fewer than four characters behind it
RECURSIVE BodyEndsInsideEscape(_)
BodyEndsInsideEscape(body) ==
    IF body = <<>> THEN FALSE
    ELSE IF Head(body) \in QuoteTokens THEN FALSE
    ELSE IF Head(body) = "bs"
    THEN IF Len(body) = 1 THEN TRUE
         ELSE IF body[2] = "Q" THEN BodyEndsInsideEscape(SubSeq(body, 3, Len(body)))
         ELSE IF body[2] \in QuoteTokens THEN FALSE
         ELSE IF body[2] = "cu"
         THEN IF StrLen(SubSeq(body, 3, Len(body))) < 4 THEN TRUE
              ELSE IF HexQuad(SubSeq(body, 3, Len(body)))
              THEN BodyEndsInsideEscape(SubSeq(body, 7, Len(body)))
              ELSE BodyEndsInsideEscape(SubSeq(body, 3, Len(body)))
         ELSE BodyEndsInsideEscape(SubSeq(body, 3, Len(body)))
    ELSE BodyEndsInsideEscape(Tail(body))

EndsInsideEscape(raw) ==
    /\ OpeningQuote(raw) # 0
    /\ BodyEndsInsideEscape(SubSeq(raw, OpeningQuote(raw) + 1, Len(raw)))

\* C16: for every strict prefix b1 of the buffer b2 just read, the value
\* read from b1 is a prefix of the value read from b2 whenever both values
\* are non-empty and b1 does not end inside an escape sequence.
C16_PartialFieldMonotone ==
    call = "field" =>
        \A k \in 0..(Len(accumulated) - 1) :
            (/\ extract_assistant_content_from_json(SubSeq(accumulated, 1, k)) # <<>>
             /\ content # <<>>
             /\ ~EndsInsideEscape(SubSeq(accumulated, 1, k)))
                => IsPrefix(extract_assistant_content_from_json(SubSeq(accumulated, 1, k)),
                            content)

\* the buffer read ends one character after a complete \u escape: the value
\* is the decoded character and that character, and the value of the buffer
\* without its last character is the decoded character alone
C16_Witness ==
    /\ call = "field"
    /\ content = <<"c#", "cx">>
    /\ extract_assistant_content_from_json(SubSeq(accumulated, 1, Len(accumulated) - 1))
          = <<"c#">>

PlainTokens == {"sp", "cx", "c4", "co"}

IsPlain(s) == \A i \in 1..Len(s) : s[i] \in PlainTokens

\* the buffer lacks the quoted key "assistant", or the quoted key "content"
\* after it, or a colon after that, or has after the colon something else
\* than whitespace and a quote
NotLocated(raw) ==
    \/ \A i \in 1..Len(raw) : raw[i] \notin {"J", "ka"}
    \/ \E a \in 1..Len(raw) :
          /\ raw[a] = "ka"
          /\ \A i \in 1..(a - 1) : raw[i] \notin {"J", "ka"}
          /\ \/ \A i \in (a + 1)..Len(raw) : raw[i] \notin {"J", "kc"}
             \/ \E c \in (a + 1)..Len(raw) :
                   /\ raw[c] = "kc"
                   /\ \A i \in (a + 1)..(c - 1) : raw[i] \notin {"J", "kc"}
                   /\ \/ \A i \in (c + 1)..Len(raw) : raw[i] \notin {"co", "kc", "J"}
                      \/ \E o \in (c + 1)..Len(raw) :
                            /\ raw[o] \in {"co", "kc", "J"}
                            /\ \A i \in (c + 1)..(o - 1) : raw[i] \notin {"co", "kc", "J"}
                            /\ \/ raw[o] # "co"
                               \/ \A i \in (o + 1)..Len(raw) : raw[i] = "sp"
                               \/ \E q \in (o + 1)..Len(raw) :
                                     /\ raw[q] \notin {"sp", "Q"}
                                     /\ \A i \in (o + 1)..(q - 1) : raw[i] = "sp"

\* C17: the reader returns a value for every buffer: "" when the key, the
\* colon or the opening quote is not located; all the characters after the
\* opening quote when the buffer ends before a closing quote; and, for a \u
\* that has fewer than four characters behind it, the letter u and those
\* characters.
C17_ReaderTotal ==
    call = "field" =>
        /\ content \in Seq({"sp", "nl", "cx", "c4", "co", "cu", "cn", "c#", "c%",
                            "Q", "bs", "{", ","})
        /\ NotLocated(accumulated) => content = <<>>
        /\ \A n \in 1..Len(accumulated) :
              (/\ SubSeq(accumulated, 1, n) \in {<<"J">>, <<"ka", "kc", "co", "Q">>,
                                                 <<"ka", "kc", "co", "sp", "Q">>}
               /\ IsPlain(SubSeq(accumulated, n + 1, Len(accumulated))))
                  => content = SubSeq(accumulated, n + 1, Len(accumulated))
        /\ \A n \in 1..Len(accumulated) :
              (/\ accumulated[1] = "J"
               /\ IsPlain(SubSeq(accumulated, 2, n - 1))
               /\ n < Len(accumulated)
               /\ accumulated[n] = "bs"
               /\ accumulated[n + 1] = "cu"
               /\ IsPlain(SubSeq(accumulated, n + 2, Len(accumulated)))
               /\ Len(accumulated) - (n + 1) < 4)
                  => content = SubSeq(accumulated, 2, n - 1) \o <<"cu">>
                                  \o SubSeq(accumulated, n + 2, Len(accumulated))

\* a buffer that ends one digit after \u was read: the value ends with the
\* letter u and the digit
C17_Witness ==
    /\ call = "field"
    /\ Len(accumulated) >= 4
    /\ SubSeq(accumulated, Len(accumulated) - 2, Len(accumulated)) = <<"bs", "cu", "c4">>
    /\ Len(content) >= 3
    /\ SubSeq(content, Len(content) - 1, Len(content)) = <<"cu", "c4">>

(***************************************************************************)
(* Properties of the frames of a run.                                      *)
(***************************************************************************)
KindsOf(frames) == {frames[i].kind : i \in 1..Len(frames)}

PositionsOf(frames, kind) == {i \in 1..Len(frames) : frames[i].kind = kind}

\* C18 as stated: the iteration for one event yields at most one frame among
\* the kinds chunk, routing_update and documents_append, never two of these
\* kinds.
C18_AtMostOneKind ==
    [][pulled' = pulled + 1
          => Cardinality(KindsOf(emitted')
                           \cap {"chunk", "routing_update", "documents_append"}) <= 1]_vars

\* C18 amended: the iteration for one event yields at most one frame of each
\* of the kinds routing_update, chunk and documents_append, in that order; it
\* can yield all three, and yields documents_append only after a chunk.
C18_OneOfEachKindInOrder ==
    [][pulled' = pulled + 1
          => /\ \A kind \in {"routing_update", "chunk", "documents_append"} :
                   Cardinality(PositionsOf(emitted', kind)) <= 1
             /\ \A i \in PositionsOf(emitted', "routing_update") :
                   \A j \in PositionsOf(emitted', "chunk")
                              \cup PositionsOf(emitted', "documents_append") : i < j
             /\ \A j \in PositionsOf(emitted', "documents_append") :
                   /\ j = Len(emitted')
                   /\ j > 1
                   /\ emitted'[j - 1].kind = "chunk"]_vars

\* one event has yielded a routing_update, a chunk and a documents_append
C18_Witness ==
    /\ pc = "stream"
    /\ {"routing_update", "chunk", "documents_append"} \subseteq KindsOf(emitted)

C20_CheckOnlyOnGrowth ==
    [][pulled' = pulled + 1
          => /\ assistant_content_len' >= assistant_content_len
             /\ call' = "streaming"
                   => /\ content' = extract_assistant_content_from_json(accumulated')
                      /\ StrLen(content') > assistant_content_len
                      /\ assistant_content_len' = StrLen(content')
             /\ DocsOf(emitted') # <<>>
                   => call' = "streaming" /\ assistant_content_len' > assistant_content_len
             /\ streamed_news_keys' # streamed_news_keys
                   => assistant_content_len' > assistant_content_len]_vars

\* text arrived after the field was closed: the field is as long as at the
\* previous check and the segmenter was not run
C20_Witness ==
    /\ pc = "stream"
    /\ use_web_search
    /\ event # None
    /\ extract_stream_text(event) # <<>>
    /\ call = "none"
    /\ assistant_content_len > 0
    /\ assistant_content_len = StrLen(extract_assistant_content_from_json(accumulated))

C22_DoneOnceAndLast ==
    /\ <>(pc \in {"done", "closed"})
    /\ [][/\ "done" \in KindsOf(emitted')
             => pc = "final" /\ pc' = "done" /\ emitted' = <<DoneFrame>>
          /\ pc = "done" => emitted' = <<>>]_vars

\* a run in which events arrived but no text ended with the done frame
C22_Witness ==
    /\ pc = "done"
    /\ ~raised
    /\ pulled >= 1
    /\ accumulated = <<>>
    /\ emitted = <<DoneFrame>>

\* C23: a run of generate_sse that is consumed to its end yields the whole
\* artifact once: one artifact frame, as the last frame of the step that
\* leaves the loop over the stream (the parsed envelope, a fallback artifact
\* or the error artifact); no chunk and no documents_append frame comes
\* after it, and {done: true} comes only as the next step.
C23_OneArtifactBeforeDone ==
    [][/\ pc' = "final"
          => /\ pc = "stream"
             /\ Cardinality(PositionsOf(emitted', "final")) = 1
             /\ emitted'[Len(emitted')].kind = "final"
             /\ LET data == emitted'[Len(emitted')].data IN
                \/ data.parsed
                \/ ~data.parsed /\ Head(data.assistant_content) \in {"F", "G", "X"}
       /\ "final" \in KindsOf(emitted') => pc' = "final"
       /\ pc \in {"final", "done"}
          => KindsOf(emitted') \cap {"chunk", "documents_append", "final"} = {}
       /\ pc' = "done" => pc = "final" /\ "final" \in KindsOf(emitted)]_vars

\* the parsed envelope is sent as the artifact of a run that had streamed
\* text and documents before
C23_Witness ==
    /\ pc = "final"
    /\ ~raised
    /\ sent_documents # <<>>
    /\ emitted[Len(emitted)].kind = "final"
    /\ emitted[Len(emitted)].data.parsed
    /\ pulled = MaxEvents

\* the artifact has every key of the output schema, each empty
SchemaKeysEmpty(data) ==
    /\ data.bullets = <<>>
    /\ data.summary = EmptySummary
    /\ data.translation = EmptyTranslation
    /\ data.memo = EmptyMemo
    /\ data.routing = <<>>

\* C24: safe_parse_json never raises: whatever text the run has received,
\* the artifact built at the end of the stream is the value parsed from the
\* text, or from its slice between the first "{" and the last "}", or else
\* the fallback artifact, which has every key of the schema, empty, and in
\* assistant.content a copy of at most 200 characters of the text.
C24_SafeParseAlwaysReturns ==
    pc = "final" /\ ~raised /\ accumulated # <<>>
        => LET result == safe_parse_json(accumulated) IN
           /\ ~IsRaised(result)
           /\ \/ result.parsed
                 /\ result.assistant_content \in
                       {extract_assistant_content_from_json(accumulated),
                        extract_assistant_content_from_json(BraceSlice(accumulated))}
              \/ /\ ~result.parsed
                 /\ SchemaKeysEmpty(result)
                 /\ \E copy \in {TakeChars(accumulated, 200)} :
                       /\ StrLen(copy) <= 200
                       /\ result.assistant_content = <<"F">> \o copy \o <<"...">>

(***************************************************************************)
(* Properties of the title translation.                                    *)
(***************************************************************************)
\* the documents a step hands to the client: those of its documents_append
\* frame and those of the final artifact
HandedOver(frames) ==
    DocsOf(frames)
    \o (IF FinalData(frames) # None THEN FinalData(frames).documents_append ELSE <<>>)

\* C25: when the request of batch_translate_titles fails during a pass, the
\* run goes on (no exception reaches the generator), and every new article
\* of the pass is handed to the client and stored, under its original title.
C25_TranslationFailureKeepsRecords ==
    [][translate_calls' # <<>> /\ translate_calls'[1].failed
          => LET fresh == NewArticles(articles', streamed_news_keys)
                 docs == HandedOver(emitted')
             IN  /\ pc' \in {"stream", "final"}
                 /\ raised' = raised
                 /\ fresh # <<>>
                 /\ Len(docs) = Len(fresh)
                 /\ \A i \in 1..Len(fresh) :
                       /\ docs[i].id = make_news_doc_id(make_news_key(fresh[i]))
                       /\ docs[i].name = fresh[i].title
                       /\ docs[i] \in news_records']_vars

\* the translation failed in a streaming pass that found a new article
C25_Witness ==
    /\ pc = "stream"
    /\ translate_calls # <<>>
    /\ translate_calls[1].failed
    /\ DocsOf(emitted) # <<>>
    /\ DocsOf(emitted)[1].name = articles[1].title

\* C28: a pass asks for the translation of its titles at most once, in one
\* request for all the new articles and never one per record, and the
\* documents_append frame of the pass comes after the answer: each record in
\* it is named by the answer, the translation where one was returned and
\* the original title otherwise.
C28_OneTranslationBeforeFrame ==
    [][call' \in {"dedup", "dedup-twice"}
          => LET input == IF call' = "dedup" THEN articles ELSE articles \o articles
                 fresh == NewArticles(input, streamed_news_keys)
                 docs == DocsOf(emitted')
             IN  /\ Len(translate_calls') <= 1
                 /\ docs # <<>> => Len(translate_calls') = 1
                 /\ translate_calls' # <<>>
                       => /\ translate_calls'[1].titles =
                                {fresh[i].title : i \in 1..Len(fresh)}
                          /\ Len(docs) = Len(fresh)
                          /\ \A i \in 1..Len(fresh) :
                                docs[i].name =
                                    IF fresh[i].title \in translate_calls'[1].translated
                                    THEN <<"zh:">> \o fresh[i].title
                                    ELSE fresh[i].title]_vars

\* one request served a pass of several records, some translated, some not
C28_Witness ==
    /\ call = "dedup"
    /\ Len(translate_calls) = 1
    /\ Len(DocsOf(emitted)) >= 2
    /\ \E i, j \in 1..Len(DocsOf(emitted)) :
          /\ Head(DocsOf(emitted)[i].name) = "zh:"
          /\ Head(DocsOf(emitted)[j].name) # "zh:"

RECURSIVE Alone(_)
Alone(history) ==
    IF history = <<>> THEN FreshRun
    ELSE LET before == Alone(SubSeq(history, 1, Len(history) - 1))
             last == history[Len(history)]
         IN  IF last.step = "event"
             THEN StepLocals(before, last.event, before.streamed_news_keys, last.translated)
             ELSE IF last.step = "end"
             THEN EndLocals(before, before.streamed_news_keys, last.translated)
             ELSE FinishLocals(before)

C29_ToolAndReasoningTraces ==
    pc = "stream" /\ event # None
        => LET trace == map_event_to_trace_event(event) IN
           /\ event.event = "ToolCallStarted"
                 => /\ trace # None
                    /\ trace.type = "tool_start"
                    /\ "data" \in DOMAIN trace
           /\ event.event = "ToolCallCompleted"
                 => /\ trace # None
                    /\ trace.type = "tool_done"
                    /\ "data" \in DOMAIN trace
           /\ event.event = "ReasoningStep"
                 => /\ trace # None
                    /\ trace.type = "reasoning_step"
                    /\ "run_id" \in DOMAIN trace

\* C30: for a run-content event map_event_to_trace_event returns a trace
\* event of type content when the content is plain text that is not blank,
\* and no trace event when the stripped content opens with "{" or "[".
C30_ContentTraces ==
    pc = "stream" /\ event # None /\ event.event = "RunContent"
        => LET trace == map_event_to_trace_event(event) IN
           IF should_emit_trace_content(event.content)
           THEN trace # None /\ trace.type = "content"
           ELSE trace = None

(***************************************************************************)
(* Properties of the news store.                                           *)
(***************************************************************************)
\* what of a row a reader sees of the record it was stored from
Stored(row) == [id |-> row.id, name |-> row.name, content |-> row.content]

\* the rows the call made last handed back
ReturnedRows(made, result) ==
    IF made.op = "get_all_records" THEN SeqRange(result)
    ELSE IF made.op = "get_record_by_id" /\ result # None THEN {result}
    ELSE {}

ListedOps ==
    {"get_all_records", "get_record_by_id", "update_tags", "delete_record",
     "clear_all_records"}

\* C34 as stated: a record stored with a non-empty user_id A is never
\* returned by get_all_records or get_record_by_id called with a different
\* non-empty user_id B, and update_tags, delete_record and clear_all_records
\* called with B never modify or delete it.
C34_UserIsolation ==
    [][invoked'.op \in ListedOps /\ invoked'.user_id \notin {NoUser, <<>>}
          => \A row \in news_records :
                (\E A \in UserIds :
                    /\ A \notin {NoUser, <<>>}
                    /\ A # invoked'.user_id
                    /\ _normalize_user_id(A) = row.user_id)
                   => /\ row \in news_records'
                      /\ \A r \in ReturnedRows(invoked', returned') : r.id # row.id]_vars

\* C34, amended: a record stored with a user_id A that is not blank is never
\* returned by get_all_records or get_record_by_id called with a user_id B
\* that is not blank and differs from A once both are stripped of
\* whitespace, and update_tags, delete_record and clear_all_records called
\* with such a B never modify or delete it.
C34_IsolationOfStrippedIds ==
    [][invoked'.op \in ListedOps /\ _normalize_user_id(invoked'.user_id) # NoUser
          => \A row \in news_records :
                row.user_id \notin {NoUser, _normalize_user_id(invoked'.user_id)}
                   => /\ row \in news_records'
                      /\ \A r \in ReturnedRows(invoked', returned') : r.id # row.id]_vars

\* user B has asked to tag a record of user A and was refused
C34_Witness ==
    /\ invoked # None
    /\ invoked.op = "update_tags"
    /\ invoked.user_id = UserB
    /\ returned = FALSE
    /\ \E row \in news_records : row.id = invoked.record_id /\ row.user_id = UserA

(***************************************************************************)
(* Properties of the tag store.                                            *)
(***************************************************************************)
\* the tags the store holds for a key and a user id
TagsOf(users, tag_key, user_id) == DocsGet(_get_user_bucket(users, user_id).docs, tag_key)

\* C32: after set_doc_tags(key, tags, user) the store holds for the key and
\* the user the tags in their order, repeated tags dropped after their first
\* occurrence; get_doc_tags(key, user) returns what the store holds; that
\* stays so until the next set_doc_tags for the key and the user or a
\* clear_all_tags that covers the user; and set_doc_tags leaves the tags of
\* every other key and of every other user (a user being what the id is
\* once stripped, with None and blank ids for the legacy user) as they are.
C32_TagRoundTrip ==
    [][/\ invoked'.op = "set_doc_tags"
             => /\ TagsOf(tag_store', invoked'.record_id, invoked'.user_id)
                      = _dedupe_list(invoked'.arg)
                /\ \A tag_key \in TagKeys, user_id \in TagUserIds :
                      tag_key # invoked'.record_id
                      \/ _normalize_user_key(user_id) # _normalize_user_key(invoked'.user_id)
                         => TagsOf(tag_store', tag_key, user_id)
                               = TagsOf(tag_store, tag_key, user_id)
       /\ invoked'.op = "get_doc_tags"
             => /\ returned' = TagsOf(tag_store, invoked'.record_id, invoked'.user_id)
                /\ \A tag_key \in TagKeys, user_id \in TagUserIds :
                      TagsOf(tag_store', tag_key, user_id)
                         = TagsOf(tag_store, tag_key, user_id)
       /\ invoked'.op = "clear_all_tags"
             => \A tag_key \in TagKeys, user_id \in TagUserIds :
                   invoked'.user_id # NoUser
                   /\ _normalize_user_key(user_id) # _normalize_user_key(invoked'.user_id)
                      => TagsOf(tag_store', tag_key, user_id)
                            = TagsOf(tag_store, tag_key, user_id)]_vars

\* a list with a repeated tag set for a user has been read back, while
\* another user holds other tags under the same key
C32_Witness ==
    /\ invoked # None
    /\ invoked.op = "get_doc_tags"
    /\ invoked.user_id = UserB
    /\ returned = <<"y", "x">>
    /\ TagsOf(tag_store, invoked.record_id, UserA) = <<"x">>

\* C33: when get_doc_tags is called for a user other than the legacy user
\* who has no tags under the key while the legacy bucket holds tags for the
\* key, the legacy tags are copied into the bucket of the user and returned.
C33_LegacyTagsMigrate ==
    [][/\ invoked'.op = "get_doc_tags"
       /\ _normalize_user_key(invoked'.user_id) # LEGACY_USER_KEY
       /\ invoked'.record_id \notin
             DOMAIN _get_user_bucket(tag_store, invoked'.user_id).docs
       /\ TagsOf(tag_store, invoked'.record_id, NoUser) # <<>>
          => /\ returned' = TagsOf(tag_store, invoked'.record_id, NoUser)
             /\ TagsOf(tag_store', invoked'.record_id, invoked'.user_id) = returned']_vars

generate_artifacts(text, web_search) ==
    LET data == safe_parse_json(text) IN
    IF IsRaised(data) THEN <<>>
    ELSE LET news_docs == build_news_records_from_articles(
                              FinalArticles(data, web_search), {}, {}).documents
         IN  IF news_docs # <<>> THEN news_docs ELSE data.documents_append

\* C37: when a web-search run has sent its final artifact, parsed from the
\* buffer as the envelope, the ids of the documents it sent, in the frames
\* of the stream and then in the final artifact, are the ids of
\* documents_append of the non-streaming response to the same text, in the
\* same order.
C37_SameDocumentsBothModes ==
    ParsedFinal => sent_documents = DocIds(generate_artifacts(accumulated, use_web_search))

(***************************************************************************)
(* Properties of the status log over the events of a run.                  *)
(***************************************************************************)
\* C38 as stated: an entry of the status log that is done is not running
\* after any later step of the run.
C38_DoneNeverRunning ==
    [][\A i \in 1..Len(routing_log) :
          routing_log[i].status = "done" => routing_log'[i].status # "running"]_vars

\* C38: an entry of the status log that is done goes back to running only
\* when the event handled is the started event of that entry: run-started
\* for run-main, tool-call-started for the entry of the tool's key.
C38_DoneUntilStartedAgain ==
    [][\A i \in 1..Len(routing_log) :
          (routing_log[i].status = "done" /\ routing_log'[i].status = "running")
             => /\ pc = "stream"
                /\ pulled' = pulled + 1
                /\ \/ /\ event'.event \in RunStartedEvents
                      /\ routing_log[i].id = "run-main"
                   \/ /\ event'.event \in ToolStartedEvents
                      /\ routing_log[i].id = ToolKey(event'.tool)]_vars

\* run-main was logged as failed and a tool entry as done, and the event
\* handled after them, which starts neither, left both done
C38_Witness ==
    /\ pc = "stream"
    /\ event # None
    /\ event.event = "RunContent"
    /\ \E i \in 1..Len(routing_log) :
          routing_log[i].id = "run-main" /\ routing_log[i].status = "done"
    /\ \E i \in 1..Len(routing_log) :
          routing_log[i].id = "t1" /\ routing_log[i].status = "done"

\* the run-main entry of the status log the final artifact carries, if the
\* step taken last sent the final artifact with such an entry, records a
\* failure
FinalLogKeepsFailure ==
    (pc = "final" /\ FinalData(emitted) # None)
        => \A i \in 1..Len(FinalData(emitted).routing) :
               FinalData(emitted).routing[i].id = "run-main"
                  => /\ FinalData(emitted).routing[i].status = "done"
                     /\ FinalData(emitted).routing[i].eta = "failed"

\* C39: when the stream of a run ends, without raising, after a run-error
\* event (the last event the run handled), the run-main entry in the status
\* log of the final artifact is done with the failed eta: the update at the
\* end of the stream does not overwrite it.
C39_FailureKept ==
    (~raised /\ event # None /\ event.event \in RunErrorEvents) => FinalLogKeepsFailure

\* the event handled last is a lifecycle event of the tool call
Observed(tool) ==
    /\ pc = "stream"
    /\ event # None
    /\ event.event \in ToolStartedEvents \cup ToolCompletedEvents \cup ToolErrorEvents
    /\ event.tool = tool

ToolEventNames == ToolStartedEvents \cup ToolCompletedEvents \cup ToolErrorEvents

\* the step handles a lifecycle event of a tool call
HandlesToolEvent ==
    /\ pc = "stream"
    /\ pulled' = pulled + 1
    /\ event'.event \in ToolEventNames

TellApart(first, second) ==
    \/ /\ first.tool_call_id # ""
       /\ second.tool_call_id # ""
       /\ first.tool_call_id # second.tool_call_id
    \/ /\ first.tool_call_id = ""
       /\ second.tool_call_id = ""
       /\ \/ first.tool_name # second.tool_name
          \/ first.created_at # second.created_at

====
